---------------------------- MODULE Spec2Model ----------------------------
(***************************************************************************)
(* Transport layer of trends-js: request() / runRequest() with the         *)
(* process-wide session cookie cookieVal.                                  *)
(*                                                                         *)
(* A call is one invocation of request().  Its position is pc[c]:          *)
(*   "idle"      no call is running in this slot                           *)
(*   "awaiting"  an HTTP attempt is on the wire (https.request ... end())  *)
(*   "sleeping"  the 'end' handler is suspended in `await sleep(delay)`    *)
(*   "resolved"  the promise returned by request() resolved                *)
(*   "rejected"  the promise returned by request() rejected                *)
(*   "orphaned"  an inner runRequest promise rejected below a frame that   *)
(*               awaits it without try/catch: the outer promise of the     *)
(*               call never settles                                        *)
(* JavaScript runs every handler to its next await without interleaving,   *)
(* so each action below is one such run.                                   *)
(*                                                                         *)
(* The model follows the variant of request.ts that has the 302 and 401    *)
(* branches; the earlier variant has neither and stores the cookie only    *)
(* for a rate-limited response.                                            *)
(***************************************************************************)
EXTENDS Integers, Sequences, FiniteSets, TLC

\* ------------------------------------------------------------ constants
MAX_RETRIES == 3
BASE_DELAY_MS == 750
JITTER_MS == 250

\* Math.random() is modelled as k / RandomDen for k in 0..RandomDen-1.
RandomDen == 5

\* ------------------------------------------------------------- helpers
\* `string | undefined` is a sequence of length at most one.
None == <<>>
Some(v) == <<v>>

\* String.prototype.includes
Includes(s, t) ==
  \E i \in 0..(Len(s) - Len(t)) : SubSeq(s, i + 1, i + Len(t)) = t

\* s.split(sep)[0] for a one-character separator
SplitHead(s, sep) ==
  IF \E i \in 1..Len(s) : SubSeq(s, i, i) = sep
    THEN LET i == CHOOSE i \in 1..Len(s) :
                    /\ SubSeq(s, i, i) = sep
                    /\ \A j \in 1..(i - 1) : SubSeq(s, j, j) # sep
         IN SubSeq(s, 1, i - 1)
    ELSE s

\* Math.pow(2, n) for a natural n
RECURSIVE Pow2(_)
Pow2(n) == IF n = 0 THEN 1 ELSE 2 * Pow2(n - 1)

\* obj[name] = value on a headers object
SetHeader(h, name, value) ==
  [k \in DOMAIN h \cup {name} |-> IF k = name THEN value ELSE h[k]]

\* delete obj[name]
DeleteHeader(h, name) == [k \in DOMAIN h \ {name} |-> h[k]]

\* ------------------------------------------------------------ inputs
Calls == {"A", "B"}

Statuses == {200, 302, 401, 429, 500}

\* res.headers['set-cookie']: undefined (the empty sequence) or the list of
\* Set-Cookie values, each a cookie-pair followed by optional attributes.
SetCookieHeaders ==
  { <<>>,
    <<"NID=1; Path=/; HttpOnly">>,
    <<"SID=2", "X=9; Secure">> }

Bodies == { "{}", "<html>", "Error 429", "<p>Too Many Requests</p>" }

Responses ==
  [statusCode : Statuses, setCookie : SetCookieHeaders, chunk : Bodies]

\* The responses the backoff delays are enumerated against.
JitterResponses ==
  [statusCode : {200, 401, 429}, setCookie : {<<>>}, chunk : {"{}", "Error 429"}]

\* The responses two overlapping calls are run against.
ConcurrentResponses ==
  [statusCode : {200, 302, 429}, setCookie : SetCookieHeaders, chunk : {"{}"}]

NoResponse == <<>>

\* -------------------------------------------------------------- state
VARIABLES
  cookieVal,     \* the module-level `let cookieVal: string | undefined`
  pc,            \* position of each call
  attempt,       \* the `attempt` argument of the innermost runRequest frame
  headers,       \* options.headers of the call (one object for all its frames)
  wire,          \* headers of the attempt on the wire, as https.request took them
  via,           \* how each nested runRequest frame was entered: "redirect" | "backoff"
  delay,         \* milliseconds handed to sleep() while the call is sleeping
  result,        \* what the promise of request() resolved with
  res,           \* the response the 'end' handler of the call processed last
                 \* (none once the call has failed)
  enableBackoff, \* the enableBackoff argument of the call
  attemptsSent,  \* number of HTTP attempts the call has sent
  cookieLog,     \* who wrote cookieVal: the call of the latest store (line 29),
                 \* whether that response ended a call that saw no 302, the
                 \* calls in flight at that store, and the call of the first
                 \* clear (line 44) since that store
  fn,            \* the decoder function or API method applied last ("none": none yet)
  input,         \* what it was applied to; for an API method, the outcomes of
                 \* its request() calls so far, in order
  output,        \* what it returned or threw
  keyword,       \* the keyword an API method was called with (geo for the
                 \* trends methods)
  token,         \* options.qs.token of the request interestByRegion or
                 \* relatedTopics sent after its explore call (none: no such
                 \* request yet)
  lastResponse   \* the response an 'end' handler processed last, kept across
                 \* calls where a caller's calls are followed one after
                 \* another (none: none yet)

transportVars ==
  <<cookieVal, pc, attempt, headers, wire, via, delay, result, res,
    enableBackoff, attemptsSent, cookieLog>>

decodeVars == <<fn, input, output, keyword, token, lastResponse>>

vars == <<transportVars, decodeVars>>

\* ------------------------------------------------- request(): lines 106-122
\* Mutant: the cookie entry is never spread into the headers.
RequestHeadersWithoutCookie(cookie) ==
  [k \in {"Content-Type"} |-> "application/json"]

\* The headers literal of requestOptions.  The cookie entry is spread in
\* only when cookieVal is truthy.
RequestHeaders(cookie) ==
  LET base == [k \in {"Content-Type"} |-> "application/json"]
  IN IF cookie # None /\ cookie[1] # ""
       THEN SetHeader(base, "cookie", cookie[1])
       ELSE base

\* Mutant: the first attempt index is 0 whatever enableBackoff is.
FirstAttemptAlwaysZero(backoff) == 0

\* enableBackoff ? runRequest(.., 0) : runRequest(.., MAX_RETRIES)
FirstAttempt(backoff) == IF backoff THEN 0 ELSE MAX_RETRIES

\* ------------------------------------------ runRequest 'end' handler: 22-71
HasSetCookie(r) == Len(r.setCookie) > 0

\* Mutant: the Set-Cookie value is kept whole, attributes included.
NewCookieWithAttributes(r) == r.setCookie[1]

\* Mutant: the cookie is taken from the last Set-Cookie value.
NewCookieOfLastValue(r) == SplitHead(r.setCookie[Len(r.setCookie)], ";")

NewCookie(r) == SplitHead(r.setCookie[1], ";")

\* Mutant: every status from 429 up counts as rate-limited.
IsRateLimitedFrom429Up(r) ==
  \/ r.statusCode >= 429
  \/ Includes(r.chunk, "Error 429")
  \/ Includes(r.chunk, "Too Many Requests")

\* Mutant: the 'Too Many Requests' body test is missing.
IsRateLimitedStatusOrError429(r) ==
  \/ r.statusCode = 429
  \/ Includes(r.chunk, "Error 429")

IsRateLimited(r) ==
  \/ r.statusCode = 429
  \/ Includes(r.chunk, "Error 429")
  \/ Includes(r.chunk, "Too Many Requests")

IsUnauthorized(r) == r.statusCode = 401

\* Mutant: the redirect branch is taken for status 301 only.
IsMovedPermanentlyOnly(r) == r.statusCode = 301

IsMovedPermanentlyOrRedirect(r) == r.statusCode = 302

\* Mutant: `attempt <= MAX_RETRIES`.
CanRetryInclusive(n) == n <= MAX_RETRIES

\* `attempt < MAX_RETRIES`, the guard of both retry branches
CanRetry(n) == n < MAX_RETRIES

\* Mutant: a response without Set-Cookie makes the stored cookie forgotten.
CookieAfterForgetsWithoutSetCookie(r, cookie) ==
  IF IsMovedPermanentlyOrRedirect(r) THEN None
  ELSE IF HasSetCookie(r) THEN Some(NewCookie(r))
  ELSE None

\* Mutant: the Set-Cookie block runs after the redirect block.
CookieAfterSetCookieLast(r, cookie) ==
  IF HasSetCookie(r) THEN Some(NewCookie(r))
  ELSE IF IsMovedPermanentlyOrRedirect(r) THEN None
  ELSE cookie

\* Mutant: a 429 drops the stored cookie as a 302 does.
CookieAfterDropOn429(r, cookie) ==
  IF IsMovedPermanentlyOrRedirect(r) \/ r.statusCode = 429 THEN None
  ELSE IF HasSetCookie(r) THEN Some(NewCookie(r))
  ELSE cookie

\* cookieVal after lines 26-47
CookieAfter(r, cookie) ==
  IF IsMovedPermanentlyOrRedirect(r) THEN None
  ELSE IF HasSetCookie(r) THEN Some(NewCookie(r))
  ELSE cookie

\* options.headers after lines 26-47 (options.headers is always an object)
HeadersAfter(r, h) ==
  IF IsMovedPermanentlyOrRedirect(r) THEN DeleteHeader(h, "cookie")
  ELSE IF HasSetCookie(r) THEN SetHeader(h, "cookie", NewCookie(r))
  ELSE h

\* Math.floor(Math.random() * 250) with Math.random() = k / den
Jitter(k, den) == (k * JITTER_MS) \div den

\* Mutant: the delay grows linearly, 2 * attempt in place of Math.pow(2, attempt).
BackoffDelayLinear(n, k, den) == BASE_DELAY_MS * 2 * n + Jitter(k, den)

\* line 57
BackoffDelay(n, k, den) == BASE_DELAY_MS * Pow2(n) + Jitter(k, den)

\* Mutant: the redirect branch retries without the `attempt < MAX_RETRIES` guard.
OutcomeRedirectUnguarded(r, n) ==
  IF IsMovedPermanentlyOrRedirect(r) THEN "redirect"
  ELSE IF (IsRateLimited(r) \/ IsUnauthorized(r)) /\ CanRetry(n) THEN "backoff"
  ELSE "resolve"

\* Which branch the handler takes: lines 43-70
Outcome(r, n) ==
  IF IsMovedPermanentlyOrRedirect(r) /\ CanRetry(n) THEN "redirect"
  ELSE IF (IsRateLimited(r) \/ IsUnauthorized(r)) /\ CanRetry(n) THEN "backoff"
  ELSE "resolve"

\* cookieLog after lines 26-47 run for response r of call c, at attempt
\* index n with frames v, while the calls of `others` are in flight.  Once
\* the cookie is cleared, `overlap` keeps the clearing call alone, and only
\* if its call was in flight at the store.
LogAfter(r, c, n, v, log, others) ==
  LET stored ==
        IF HasSetCookie(r)
          THEN [setBy |-> Some(c),
                final |-> (Outcome(r, n) = "resolve" /\ \A i \in 1..Len(v) : v[i] # "redirect"),
                overlap |-> others,
                clearedBy |-> None]
          ELSE log
  IN IF IsMovedPermanentlyOrRedirect(r) /\ stored.clearedBy = None
       THEN [stored EXCEPT !.clearedBy = Some(c), !.overlap = stored.overlap \cap {c}]
       ELSE stored

\* The calls other than c that are in flight
InFlightBeside(c) == {d \in Calls \ {c} : pc[d] \in {"awaiting", "sleeping"}}

\* A rejection of the innermost frame travels outwards through the frames
\* that await in try/catch (the backoff branch) and stops at the first frame
\* that awaits without one (the redirect branch).
Propagates(v) == \A i \in 1..Len(v) : v[i] = "backoff"

\* Mutant: a rate-limited response with no attempt left rejects the call.
SettleRejectsRateLimited(r) ==
  IF IsRateLimited(r) THEN "rejected" ELSE "resolved"

\* Line 70: a handler that retries no further ends in resolve(chunk),
\* whatever the response was.
Settle(r) == "resolved"

\* --------------------------------------------------------------- Init
Init ==
  /\ cookieVal = None
  /\ pc = [c \in Calls |-> "idle"]
  /\ attempt = [c \in Calls |-> 0]
  /\ headers = [c \in Calls |-> <<>>]
  /\ wire = [c \in Calls |-> None]
  /\ via = [c \in Calls |-> <<>>]
  /\ delay = [c \in Calls |-> 0]
  /\ result = [c \in Calls |-> None]
  /\ res = [c \in Calls |-> NoResponse]
  /\ enableBackoff = [c \in Calls |-> FALSE]
  /\ attemptsSent = [c \in Calls |-> 0]
  /\ cookieLog = [setBy |-> None, final |-> FALSE, overlap |-> {}, clearedBy |-> None]
  /\ fn = "none"
  /\ input = None
  /\ output = None
  /\ keyword = ""
  /\ token = None
  /\ lastResponse = NoResponse

\* ------------------------------------------------------------ actions
\* request(url, options, enableBackoff): builds the headers and calls
\* runRequest, which sends the first attempt before request() first awaits.
Request(c, backoff) ==
  /\ pc[c] = "idle"
  /\ LET h == RequestHeaders(cookieVal)
     IN /\ headers' = [headers EXCEPT ![c] = h]
        /\ wire' = [wire EXCEPT ![c] = Some(h)]
  /\ attempt' = [attempt EXCEPT ![c] = FirstAttempt(backoff)]
  /\ enableBackoff' = [enableBackoff EXCEPT ![c] = backoff]
  /\ pc' = [pc EXCEPT ![c] = "awaiting"]
  /\ via' = [via EXCEPT ![c] = <<>>]
  /\ attemptsSent' = [attemptsSent EXCEPT ![c] = 1]
  /\ res' = [res EXCEPT ![c] = NoResponse]
  /\ result' = [result EXCEPT ![c] = None]
  /\ UNCHANGED <<cookieVal, delay, cookieLog>>

\* res.on('end') with a 302 and attempts left: the cookie is dropped and the
\* next attempt is sent from inside the handler.
EndRedirect(c, r) ==
  /\ pc[c] = "awaiting"
  /\ Outcome(r, attempt[c]) = "redirect"
  /\ cookieVal' = CookieAfter(r, cookieVal)
  /\ cookieLog' = LogAfter(r, c, attempt[c], via[c], cookieLog, InFlightBeside(c))
  /\ LET h == HeadersAfter(r, headers[c])
     IN /\ headers' = [headers EXCEPT ![c] = h]
        /\ wire' = [wire EXCEPT ![c] = Some(h)]
  /\ attempt' = [attempt EXCEPT ![c] = attempt[c] + 1]
  /\ via' = [via EXCEPT ![c] = Append(via[c], "redirect")]
  /\ attemptsSent' = [attemptsSent EXCEPT ![c] = attemptsSent[c] + 1]
  /\ res' = [res EXCEPT ![c] = r]
  /\ UNCHANGED <<pc, delay, result, enableBackoff>>

\* res.on('end') with a rate-limited or 401 response and attempts left: the
\* handler computes the delay and suspends in sleep().
EndBackoff(c, r, k, den) ==
  /\ pc[c] = "awaiting"
  /\ Outcome(r, attempt[c]) = "backoff"
  /\ cookieVal' = CookieAfter(r, cookieVal)
  /\ cookieLog' = LogAfter(r, c, attempt[c], via[c], cookieLog, InFlightBeside(c))
  /\ headers' = [headers EXCEPT ![c] = HeadersAfter(r, headers[c])]
  /\ wire' = [wire EXCEPT ![c] = None]
  /\ delay' = [delay EXCEPT ![c] = BackoffDelay(attempt[c], k, den)]
  /\ pc' = [pc EXCEPT ![c] = "sleeping"]
  /\ res' = [res EXCEPT ![c] = r]
  /\ UNCHANGED <<attempt, via, result, enableBackoff, attemptsSent>>

\* The sleep() timer fires: runRequest(options, body, attempt + 1).
Wake(c) ==
  /\ pc[c] = "sleeping"
  /\ attempt' = [attempt EXCEPT ![c] = attempt[c] + 1]
  /\ via' = [via EXCEPT ![c] = Append(via[c], "backoff")]
  /\ wire' = [wire EXCEPT ![c] = Some(headers[c])]
  /\ attemptsSent' = [attemptsSent EXCEPT ![c] = attemptsSent[c] + 1]
  /\ delay' = [delay EXCEPT ![c] = 0]
  /\ pc' = [pc EXCEPT ![c] = "awaiting"]
  /\ UNCHANGED <<cookieVal, headers, result, res, enableBackoff, cookieLog>>

\* res.on('end') reaching resolve(chunk): every enclosing frame resolves
\* with the same value, and so does request().
EndResolve(c, r) ==
  /\ pc[c] = "awaiting"
  /\ Outcome(r, attempt[c]) = "resolve"
  /\ cookieVal' = CookieAfter(r, cookieVal)
  /\ cookieLog' = LogAfter(r, c, attempt[c], via[c], cookieLog, InFlightBeside(c))
  /\ headers' = [headers EXCEPT ![c] = HeadersAfter(r, headers[c])]
  /\ wire' = [wire EXCEPT ![c] = None]
  /\ result' = [result EXCEPT ![c] = Some(r.chunk)]
  /\ pc' = [pc EXCEPT ![c] = Settle(r)]
  /\ res' = [res EXCEPT ![c] = r]
  /\ via' = [via EXCEPT ![c] = <<>>]
  /\ UNCHANGED <<attempt, delay, enableBackoff, attemptsSent>>

\* req.on('error', reject): the innermost promise rejects; the frames and the
\* options object of the call are dropped.
RequestError(c) ==
  /\ pc[c] = "awaiting"
  /\ wire' = [wire EXCEPT ![c] = None]
  /\ pc' = [pc EXCEPT ![c] = IF Propagates(via[c]) THEN "rejected" ELSE "orphaned"]
  /\ headers' = [headers EXCEPT ![c] = <<>>]
  /\ via' = [via EXCEPT ![c] = <<>>]
  /\ res' = [res EXCEPT ![c] = NoResponse]
  /\ UNCHANGED <<cookieVal, attempt, delay, result, enableBackoff, attemptsSent,
                 cookieLog>>

\* The caller has taken the settled promise; the slot is free for its next call.
Return(c) ==
  /\ pc[c] \in {"resolved", "rejected"}
  /\ pc' = [pc EXCEPT ![c] = "idle"]
  /\ attempt' = [attempt EXCEPT ![c] = 0]
  /\ headers' = [headers EXCEPT ![c] = <<>>]
  /\ via' = [via EXCEPT ![c] = <<>>]
  /\ result' = [result EXCEPT ![c] = None]
  /\ res' = [res EXCEPT ![c] = NoResponse]
  /\ enableBackoff' = [enableBackoff EXCEPT ![c] = FALSE]
  /\ attemptsSent' = [attemptsSent EXCEPT ![c] = 0]
  /\ cookieLog' = IF cookieLog.clearedBy = None
                    THEN [cookieLog EXCEPT !.overlap = @ \ {c}]
                    ELSE cookieLog
  /\ UNCHANGED <<cookieVal, wire, delay>>

\* One caller that awaits each call before it starts the next, against every
\* response shape.
Next ==
  \/ \E b \in BOOLEAN : Request("A", b) /\ UNCHANGED decodeVars
  \/ \E r \in Responses : EndRedirect("A", r) /\ UNCHANGED decodeVars
  \/ \E r \in Responses, k \in 0..(RandomDen - 1) : EndBackoff("A", r, k, RandomDen) /\ UNCHANGED decodeVars
  \/ \E r \in Responses : EndResolve("A", r) /\ UNCHANGED decodeVars
  \/ Wake("A") /\ UNCHANGED decodeVars
  \/ RequestError("A") /\ UNCHANGED decodeVars
  \/ Return("A") /\ UNCHANGED decodeVars

Spec == Init /\ [][Next]_vars

\* The same caller, with the guarantee of the event loop that a timer set by
\* sleep() fires.
SpecLive == Spec /\ WF_vars(Wake("A") /\ UNCHANGED decodeVars)

\* One caller with backoff enabled, with Math.random() = k / 250 for every
\* k in 0..249, so that Math.floor(Math.random() * 250) takes each of its values.
NextJitter ==
  \/ Request("A", TRUE) /\ UNCHANGED decodeVars
  \/ \E r \in JitterResponses, k \in 0..(JITTER_MS - 1) : EndBackoff("A", r, k, JITTER_MS) /\ UNCHANGED decodeVars
  \/ \E r \in JitterResponses : EndResolve("A", r) /\ UNCHANGED decodeVars
  \/ Wake("A") /\ UNCHANGED decodeVars
  \/ RequestError("A") /\ UNCHANGED decodeVars
  \/ Return("A") /\ UNCHANGED decodeVars

SpecJitter == Init /\ [][NextJitter]_vars

\* Two callers whose calls overlap in every order the event loop allows
\* (Math.random() = 0 in every backoff).
NextConcurrent ==
  \E c \in Calls :
    \/ \E b \in BOOLEAN : Request(c, b) /\ UNCHANGED decodeVars
    \/ \E r \in ConcurrentResponses : EndRedirect(c, r) /\ UNCHANGED decodeVars
    \/ \E r \in ConcurrentResponses : EndBackoff(c, r, 0, 1) /\ UNCHANGED decodeVars
    \/ \E r \in ConcurrentResponses : EndResolve(c, r) /\ UNCHANGED decodeVars
    \/ Wake(c) /\ UNCHANGED decodeVars
    \/ RequestError(c) /\ UNCHANGED decodeVars
    \/ Return(c) /\ UNCHANGED decodeVars

SpecConcurrent == Init /\ [][NextConcurrent]_vars

\* =================================================== response decoder
\* ------------------------------------------------- JavaScript values
\* What JSON.parse yields and what the decoder handles: tagged values.
JNull == [t |-> "null"]
JUndefined == [t |-> "undefined"]
JBool(b) == [t |-> "boolean", b |-> b]
JNum(n) == [t |-> "number", n |-> n]
JStr(s) == [t |-> "string", s |-> s]
JArr(a) == [t |-> "array", a |-> a]
JObj(o) == [t |-> "object", o |-> o]

\* A thrown exception: an instance of `class` with a message.
Thrown(class, message) == [t |-> "throw", class |-> class, message |-> message]

IsThrown(v) == v.t = "throw"

\* Array.isArray
IsArray(v) == v.t = "array"

\* ToBoolean: what `!x`, `x || y` and `x && y` test
Truthy(v) ==
  CASE v.t \in {"null", "undefined"} -> FALSE
    [] v.t = "boolean" -> v.b
    [] v.t = "number" -> v.n # 0
    [] v.t = "string" -> v.s # ""
    [] OTHER -> TRUE

\* x || y
OrElse(x, y) == IF Truthy(x) THEN x ELSE y

DigitChar(d) == SubSeq("0123456789", d + 1, d + 1)

RECURSIVE NatToString(_)
NatToString(n) ==
  IF n < 10 THEN DigitChar(n) ELSE NatToString(n \div 10) \o DigitChar(n % 10)

\* Number::toString for an integer
NumToString(n) == IF n < 0 THEN "-" \o NatToString(0 - n) ELSE NatToString(n)

\* String(v); an array is joined with "," and its null and undefined
\* elements give the empty string.
RECURSIVE StringOf(_)
RECURSIVE JoinFrom(_, _)
JoinFrom(a, i) ==
  IF i > Len(a) THEN ""
  ELSE (IF i > 1 THEN "," ELSE "")
         \o (IF a[i].t \in {"null", "undefined"} THEN "" ELSE StringOf(a[i]))
         \o JoinFrom(a, i + 1)

StringOf(v) ==
  CASE v.t = "string" -> v.s
    [] v.t = "number" -> NumToString(v.n)
    [] v.t = "boolean" -> (IF v.b THEN "true" ELSE "false")
    [] v.t = "null" -> "null"
    [] v.t = "undefined" -> "undefined"
    [] v.t = "array" -> JoinFrom(v.a, 1)
    [] v.t = "object" -> "[object Object]"

\* v[i] for an integer i: a TypeError on null and undefined, a character of a
\* string, an element of an array, undefined beyond the end.
Index(v, i) ==
  CASE v.t \in {"null", "undefined"} ->
         Thrown("TypeError", "Cannot read properties of " \o v.t)
    [] v.t = "throw" -> v
    [] v.t = "array" -> (IF i < Len(v.a) THEN v.a[i + 1] ELSE JUndefined)
    [] v.t = "string" ->
         (IF i < Len(v.s) THEN JStr(SubSeq(v.s, i + 1, i + 1)) ELSE JUndefined)
    [] v.t = "object" ->
         (IF NumToString(i) \in DOMAIN v.o THEN v.o[NumToString(i)] ELSE JUndefined)
    [] OTHER -> JUndefined

\* ------------------------------------------------------- JSON.parse
\* The character of s at position i (from 1); "" past the end.
Ch(s, i) == IF i >= 1 /\ i <= Len(s) THEN SubSeq(s, i, i) ELSE ""

WhiteSpace == {" ", "\n", "\t", "\r"}

RECURSIVE SkipWs(_, _)
SkipWs(s, i) == IF Ch(s, i) \in WhiteSpace THEN SkipWs(s, i + 1) ELSE i

Fail(i) == [ok |-> FALSE, v |-> JUndefined, i |-> i]
Ok(v, i) == [ok |-> TRUE, v |-> v, i |-> i]

\* A value bound by a set constructor is evaluated once, where the definitions
\* of a LET and the arguments of an operator are evaluated at each use: the
\* parser binds each position and each partial result as
\*   CHOOSE y \in {F(x) : x \in {e}} : TRUE     (F applied to the value of e)

IsStop(s, p) == Ch(s, p) \in {"\"", "\\"}

\* The first position from i on that holds a quote or a backslash;
\* Len(s) + 1 if there is none.
NextStop(s, i) ==
  CHOOSE p \in i..(Len(s) + 1) :
    /\ p = Len(s) + 1 \/ IsStop(s, p)
    /\ \A q \in i..(p - 1) : ~IsStop(s, q)

\* The characters of a JSON string from position i, after the opening quote,
\* acc being the characters read so far and p the next quote or backslash.
\* Escapes: \" \\ \/ \n \t (the others are not used by the model's texts).
RECURSIVE ScanString(_, _, _)
ScanStringStep(s, i, acc, p) ==
  LET seg == acc \o SubSeq(s, i, p - 1)
      e == Ch(s, p + 1)
  IN CASE p > Len(s) -> Fail(i)
       [] \E q \in i..(p - 1) : Ch(s, q) \in {"\n", "\t", "\r"} -> Fail(i)
       [] Ch(s, p) = "\"" -> Ok(JStr(seg), p + 1)
       [] e \in {"\"", "\\", "/"} -> ScanString(s, p + 2, seg \o e)
       [] e = "n" -> ScanString(s, p + 2, seg \o "\n")
       [] e = "t" -> ScanString(s, p + 2, seg \o "\t")
       [] OTHER -> Fail(p)

ScanString(s, i, acc) ==
  CHOOSE y \in {ScanStringStep(s, x[1], x[2], x[3]) : x \in {<<i, acc, NextStop(s, i)>>}} : TRUE

Digits == {"0", "1", "2", "3", "4", "5", "6", "7", "8", "9"}

DigitValue(c) == CHOOSE d \in 0..9 : DigitChar(d) = c

\* The digits of an integer from position i, n being the value read so far.
RECURSIVE ScanDigits(_, _, _)
ScanDigitsStep(s, i, n) ==
  IF Ch(s, i) \in Digits
    THEN ScanDigits(s, i + 1, 10 * n + DigitValue(Ch(s, i)))
    ELSE Ok(JNum(n), i)

ScanDigits(s, i, n) ==
  CHOOSE y \in {ScanDigitsStep(s, x[1], x[2]) : x \in {<<i, n>>}} : TRUE

Negated(r) == IF r.ok THEN Ok(JNum(0 - r.v.n), r.i) ELSE r

\* An integer: an optional minus, then 0 or a digit string without leading 0.
\* Fractions and exponents are not modelled: no text of the model has one.
ScanUnsigned(s, j) ==
  IF Ch(s, j) = "0" THEN Ok(JNum(0), j + 1)
  ELSE IF Ch(s, j) \in Digits THEN ScanDigits(s, j, 0)
  ELSE Fail(j)

ScanNumber(s, i) ==
  IF Ch(s, i) = "-"
    THEN CHOOSE y \in {Negated(r) : r \in {ScanUnsigned(s, i + 1)}} : TRUE
    ELSE ScanUnsigned(s, i)

StartsWithAt(s, i, w) ==
  i + Len(w) - 1 <= Len(s) /\ SubSeq(s, i, i + Len(w) - 1) = w

RECURSIVE ParseValue(_, _)
RECURSIVE ParseElements(_, _, _)
RECURSIVE ParseMembers(_, _, _)

\* After the element r of an array whose earlier elements are acc
AfterElement(s, acc, r) ==
  IF r.ok THEN ParseElements(s, r.i, Append(acc, r.v)) ELSE r

\* Behind an element of an array: `,` and the next element, or ].
ParseElementsAt(s, i, acc) ==
  LET j == SkipWs(s, i)
  IN CASE Ch(s, j) = "]" -> Ok(JArr(acc), j + 1)
       [] Ch(s, j) = "," ->
            (CHOOSE y \in {AfterElement(s, acc, r) :
                             r \in {ParseValue(s, SkipWs(s, j + 1))}} : TRUE)
       [] OTHER -> Fail(j)

ParseElements(s, i, acc) ==
  CHOOSE y \in {ParseElementsAt(s, x[1], x[2]) : x \in {<<i, acc>>}} : TRUE

\* After the value r of the member `key` of an object whose earlier members
\* are acc: `,` and the next member, or }.
AfterMember(s, acc, key, r) ==
  LET o == [x \in DOMAIN acc \cup {key} |-> IF x = key THEN r.v ELSE acc[x]]
      j == SkipWs(s, r.i)
  IN CASE ~r.ok -> r
       [] Ch(s, j) = "}" -> Ok(JObj(o), j + 1)
       [] Ch(s, j) = "," -> ParseMembers(s, SkipWs(s, j + 1), o)
       [] OTHER -> Fail(j)

\* After the key k of a member: `:` and the value.
AfterKey(s, acc, k) ==
  LET c == SkipWs(s, k.i)
  IN CASE ~k.ok -> k
       [] Ch(s, c) # ":" -> Fail(c)
       [] OTHER ->
            (CHOOSE y \in {AfterMember(s, acc, k.v.s, r) :
                             r \in {ParseValue(s, SkipWs(s, c + 1))}} : TRUE)

\* One member `"key": value` at position i
ParseMembersAt(s, i, acc) ==
  IF Ch(s, i) # "\"" THEN Fail(i)
  ELSE CHOOSE y \in {AfterKey(s, acc, k) : k \in {ScanString(s, i + 1, "")}} : TRUE

ParseMembers(s, i, acc) ==
  CHOOSE y \in {ParseMembersAt(s, x[1], x[2]) : x \in {<<i, acc>>}} : TRUE

\* After the first element r of an array
AfterFirstElement(s, r) == IF r.ok THEN ParseElements(s, r.i, <<r.v>>) ELSE r

\* After the [ of an array, at position j
ParseArrayAt(s, j) ==
  IF Ch(s, j) = "]" THEN Ok(JArr(<<>>), j + 1)
  ELSE CHOOSE y \in {AfterFirstElement(s, r) : r \in {ParseValue(s, j)}} : TRUE

\* After the { of an object, at position j
ParseObjectAt(s, j) ==
  IF Ch(s, j) = "}" THEN Ok(JObj(<<>>), j + 1) ELSE ParseMembers(s, j, <<>>)

ParseValueAt(s, i) ==
  LET c == Ch(s, i)
  IN CASE c = "\"" -> ScanString(s, i + 1, "")
       [] c = "-" \/ c \in Digits -> ScanNumber(s, i)
       [] StartsWithAt(s, i, "null") -> Ok(JNull, i + 4)
       [] StartsWithAt(s, i, "true") -> Ok(JBool(TRUE), i + 4)
       [] StartsWithAt(s, i, "false") -> Ok(JBool(FALSE), i + 5)
       [] c = "[" -> (CHOOSE y \in {ParseArrayAt(s, j) : j \in {SkipWs(s, i + 1)}} : TRUE)
       [] c = "{" -> (CHOOSE y \in {ParseObjectAt(s, j) : j \in {SkipWs(s, i + 1)}} : TRUE)
       [] OTHER -> Fail(i)

ParseValue(s, i) == CHOOSE y \in {ParseValueAt(s, x) : x \in {i}} : TRUE

\* The document r read from s is the whole of s but for white space.
WholeText(s, r) ==
  IF r.ok /\ SkipWs(s, r.i) = Len(s) + 1
    THEN r.v
    ELSE Thrown("SyntaxError", "Unexpected token in JSON")

JSONParseText(s) ==
  CHOOSE y \in {WholeText(s, r) : r \in {ParseValue(s, SkipWs(s, 1))}} : TRUE

\* JSON.parse(text): the value of the one JSON document the text holds between
\* optional white space, or a SyntaxError.
JSONParse(text) == CHOOSE y \in {JSONParseText(s) : s \in {text}} : TRUE

\* ------------------------------------------------ format.ts: the rows
\* What a function call gives back: Returned(v), or Thrown(class, message).
Returned(v) == [t |-> "return", v |-> v]

\* String(x || d)
StringOr(x, d) == StringOf(OrElse(x, JStr(d)))

\* Mutant: the filter keeps article rows of four elements.
IsArticleFromFour(article) == IsArray(article) /\ Len(article.a) >= 4

\* One element of the articles list that passes the filter of line 617
IsArticle(article) == IsArray(article) /\ Len(article.a) >= 5

\* extractArticles: lines 608-625
ExtractArticles(item) ==
  LET imageData == Index(item, 1)
      articlesArray == Index(imageData, 3)
      kept == SelectSeq(articlesArray.a, IsArticle)
  IN IF ~Truthy(imageData) \/ ~IsArray(imageData) THEN <<>>
     ELSE IF Len(imageData.a) <= 3 THEN <<>>
     ELSE IF ~IsArray(articlesArray) THEN <<>>
     ELSE [i \in 1..Len(kept) |->
             [title |-> StringOr(Index(kept[i], 0), ""),
              url |-> StringOr(Index(kept[i], 1), ""),
              source |-> StringOr(Index(kept[i], 2), ""),
              time |-> StringOr(Index(kept[i], 3), ""),
              snippet |-> StringOr(Index(kept[i], 4), "")]]

\* extractTimestamp: lines 627-636; `number | undefined` is Some(n) or None
ExtractTimestamp(item, index) ==
  LET timeArray == Index(item, index)
  IN IF ~IsArray(timeArray) THEN None
     ELSE IF Len(timeArray.a) = 0 THEN None
     ELSE IF timeArray.a[1].t # "number" THEN None
     ELSE Some(timeArray.a[1].n)

\* Mutant: the image needs a bundle longer than three, as the articles do.
ExtractImageLongerThanThree(item) ==
  LET imageData == Index(item, 1)
  IN IF ~Truthy(imageData) \/ ~IsArray(imageData) THEN None
     ELSE IF Len(imageData.a) <= 3 THEN None
     ELSE Some([newsUrl |-> StringOr(Index(imageData, 0), ""),
                source |-> StringOr(Index(imageData, 1), ""),
                imageUrl |-> StringOr(Index(imageData, 2), "")])

\* extractImage: lines 638-648
ExtractImage(item) ==
  LET imageData == Index(item, 1)
  IN IF ~Truthy(imageData) \/ ~IsArray(imageData) THEN None
     ELSE IF Len(imageData.a) < 3 THEN None
     ELSE Some([newsUrl |-> StringOr(Index(imageData, 0), ""),
                source |-> StringOr(Index(imageData, 1), ""),
                imageUrl |-> StringOr(Index(imageData, 2), "")])

\* extractTimestamp(item, 3) ?? 0: line 662
StartTime(item) ==
  LET ts == ExtractTimestamp(item, 3) IN IF ts = None THEN 0 ELSE ts[1]

\* Mutant: endTime defaults to 0 as startTime does.
EndTimeFieldDefaultZero(item) ==
  LET ts == ExtractTimestamp(item, 4) IN IF ts = None THEN Some(0) ELSE ts

\* ...(endTime && { endTime }), lines 673 and 683: the key is present when
\* endTime is truthy
EndTimeField(item) ==
  LET ts == ExtractTimestamp(item, 4)
  IN IF ts # None /\ ts[1] # 0 THEN ts ELSE None

\* Mutant: traffic defaults to the empty string, as title and shareUrl do.
TrafficDefaultEmpty(item) == StringOr(Index(item, 6), "")

\* String(item[6] || '0'): line 669
Traffic(item) == StringOr(Index(item, 6), "0")

\* The story of one row: lines 660-675
Story(item) ==
  [title |-> StringOr(Index(item, 0), ""),
   traffic |-> Traffic(item),
   articles |-> ExtractArticles(item),
   shareUrl |-> StringOr(Index(item, 12), ""),
   startTime |-> StartTime(item),
   endTime |-> EndTimeField(item),
   image |-> ExtractImage(item)]

\* Mutant: the summary entry takes endTime as extractTimestamp returned it.
TopicRawEndTime(item) ==
  [title |-> Story(item).title,
   traffic |-> Story(item).traffic,
   articles |-> Story(item).articles,
   startTime |-> StartTime(item),
   endTime |-> ExtractTimestamp(item, 4)]

\* The summary entry pushed with the story: lines 678-684
Topic(item) ==
  LET story == Story(item)
  IN [title |-> story.title,
      traffic |-> story.traffic,
      articles |-> story.articles,
      startTime |-> StartTime(item),
      endTime |-> EndTimeField(item)]

\* Mutant: every element of the row set is decoded as a row.
IsRowAny(item) == TRUE

\* if (Array.isArray(item)): line 659
IsRow(item) == IsArray(item)

\* updateResponseObject: lines 650-689.  A row that passes line 659 and is
\* null or undefined makes the first property access (item[1]) throw.
UpdateResponseObject(data) ==
  IF ~IsArray(data)
    THEN Thrown("ParseError", "Invalid data format: expected array")
    ELSE LET rows == SelectSeq(data.a, IsRow)
         IN IF \E i \in 1..Len(rows) : IsThrown(Index(rows[i], 1))
              THEN Index(rows[CHOOSE i \in 1..Len(rows) : IsThrown(Index(rows[i], 1))], 1)
              ELSE Returned([allTrendingStories |-> [i \in 1..Len(rows) |-> Story(rows[i])],
                             summary |-> [i \in 1..Len(rows) |-> Topic(rows[i])]])

\* ------------------------------------- format.ts: extractJsonFromResponse
XssiPrefix == ")]}'"

\* Mutant: the pattern never matches and the text is left as it is.
StripPrefixNever(text) == text

\* text.replace(/^\)\]\}'/, ''): line 581
StripPrefix(text) ==
  IF StartsWithAt(text, 1, XssiPrefix)
    THEN SubSeq(text, Len(XssiPrefix) + 1, Len(text))
    ELSE text

RECURSIVE LastNonWs(_, _)
LastNonWs(s, j) == IF Ch(s, j) \in WhiteSpace THEN LastNonWs(s, j - 1) ELSE j

\* String.prototype.trim
Trim(s) == SubSeq(s, SkipWs(s, 1), LastNonWs(s, Len(s)))

\* The try block, lines 583-599, one definition for each `const`
\* const data = JSON.parse(nestedJsonString) and what follows: lines 591-598
DecodeData(data) ==
  CASE IsThrown(data) -> data
    [] ~Truthy(data) \/ ~IsArray(data) \/ Len(data.a) < 2 ->
         Thrown("ParseError", "Invalid response format: missing data array")
    [] OTHER -> UpdateResponseObject(Index(data, 1))

\* const nestedJsonString = parsedResponse[0][2] and what follows: lines 587-598
DecodeNested(nestedJsonString) ==
  CASE IsThrown(nestedJsonString) -> nestedJsonString
    [] ~Truthy(nestedJsonString) ->
         Thrown("ParseError", "Invalid response format: missing nested JSON")
    [] OTHER ->
         (CHOOSE y \in {DecodeData(data) :
                          data \in {JSONParse(StringOf(nestedJsonString))}} : TRUE)

\* const parsedResponse = JSON.parse(cleanedText) and what follows: lines 583-598
DecodeOuter(parsedResponse) ==
  CASE IsThrown(parsedResponse) -> parsedResponse
    [] ~IsArray(parsedResponse) \/ Len(parsedResponse.a) = 0 ->
         Thrown("ParseError", "Invalid response format: empty array")
    [] OTHER ->
         (CHOOSE y \in {DecodeNested(nestedJsonString) :
                          nestedJsonString \in {Index(Index(parsedResponse, 0), 2)}} : TRUE)

DecodeStages(cleanedText) ==
  CHOOSE y \in {DecodeOuter(parsedResponse) :
                  parsedResponse \in {JSONParse(cleanedText)}} : TRUE

\* The catch block: lines 600-605
Rethrow(e) ==
  IF e.class = "ParseError" THEN e
  ELSE Thrown("ParseError", "Failed to parse response")

\* extractJsonFromResponse: lines 580-606
ExtractJsonFromResponse(text) ==
  CHOOSE y \in {IF IsThrown(r) THEN Rethrow(r) ELSE r :
                  r \in {DecodeStages(Trim(StripPrefix(text)))}} : TRUE

\* --------------------------------------------- googleTrendsAPI.ts: methods
\* v[key] for a property name
Prop(v, key) ==
  CASE v.t \in {"null", "undefined"} ->
         Thrown("TypeError", "Cannot read properties of " \o v.t)
    [] v.t = "throw" -> v
    [] v.t = "object" -> (IF key \in DOMAIN v.o THEN v.o[key] ELSE JUndefined)
    [] OTHER -> JUndefined

\* text.slice(n)
Slice(text, n) == IF Len(text) <= n THEN "" ELSE SubSeq(text, n + 1, Len(text))

\* The classes of '../errors/GoogleTrendsError' and of the platform that are
\* instances of Error.
ErrorClasses ==
  {"Error", "TypeError", "SyntaxError", "RateLimitError", "InvalidRequestError",
   "NetworkError", "ParseError", "UnknownError"}

\* error instanceof Error
InstanceOfError(e) == e.class \in ErrorClasses

\* { data: v } and { error: e } of GoogleTrendsResponse
DataResult(v) == [data |-> Some(v), error |-> None]
ErrorResult(class, message) ==
  [data |-> None, error |-> Some([class |-> class, message |-> message])]

\* Mutant: the catch block lets the exception through.
CatchRethrows(e) == e

\* The catch block of a method: lines 52-57, 86-91, 120-125
CatchToResult(e) ==
  IF InstanceOfError(e)
    THEN Returned(ErrorResult("NetworkError", e.message))
    ELSE Returned(ErrorResult("UnknownError", ""))

\* Mutant: the prefix removed is of four characters.
AutocompleteTitlesSliceFour(text) ==
  LET data == JSONParse(Slice(text, 4))
      topics == Prop(Prop(data, "default"), "topics")
      bad == {i \in 1..Len(topics.a) : IsThrown(Prop(topics.a[i], "title"))}
  IN CASE IsThrown(data) -> data
       [] IsThrown(topics) -> topics
       [] ~IsArray(topics) -> Thrown("TypeError", "data.default.topics.map is not a function")
       [] bad # {} -> Prop(topics.a[CHOOSE i \in bad : \A j \in bad : i <= j], "title")
       [] OTHER -> Returned([i \in 1..Len(topics.a) |-> Prop(topics.a[i], "title")])

\* JSON.parse(text.slice(5)) and data.default.topics.map(topic => topic.title)
AutocompleteTitles(text) ==
  LET data == JSONParse(Slice(text, 5))
      topics == Prop(Prop(data, "default"), "topics")
      bad == {i \in 1..Len(topics.a) : IsThrown(Prop(topics.a[i], "title"))}
  IN CASE IsThrown(data) -> data
       [] IsThrown(topics) -> topics
       [] ~IsArray(topics) -> Thrown("TypeError", "data.default.topics.map is not a function")
       [] bad # {} -> Prop(topics.a[CHOOSE i \in bad : \A j \in bad : i <= j], "title")
       [] OTHER -> Returned([i \in 1..Len(topics.a) |-> Prop(topics.a[i], "title")])

\* Mutant: a text that does not decode gives a ParseError.
AutocompleteParseError(outcome) ==
  LET r == IF IsThrown(outcome) THEN outcome ELSE AutocompleteTitles(outcome.v)
  IN CASE IsThrown(outcome) -> CatchToResult(outcome)
       [] IsThrown(r) -> Returned(ErrorResult("ParseError", r.message))
       [] OTHER -> Returned(DataResult(r.v))

\* autocomplete with a non-empty keyword, from the outcome of its request():
\* lines 46-57
Autocomplete(outcome) ==
  LET r == IF IsThrown(outcome) THEN outcome ELSE AutocompleteTitles(outcome.v)
  IN IF IsThrown(r) THEN CatchToResult(r) ELSE Returned(DataResult(r.v))

\* Mutant: a ParseError of the decoder is returned as it is.
DailyTrendsKeepsParseError(outcome) ==
  LET r == IF IsThrown(outcome) THEN outcome ELSE ExtractJsonFromResponse(outcome.v)
  IN IF IsThrown(r) /\ r.class = "ParseError"
       THEN Returned(ErrorResult("ParseError", r.message))
       ELSE IF IsThrown(r) THEN CatchToResult(r) ELSE Returned(DataResult(r.v))

\* dailyTrends, from the outcome of its request(): lines 76-91.
\* extractJsonFromResponse never returns null, so line 81 is not taken.
DailyTrends(outcome) ==
  LET r == IF IsThrown(outcome) THEN outcome ELSE ExtractJsonFromResponse(outcome.v)
  IN IF IsThrown(r) THEN CatchToResult(r) ELSE Returned(DataResult(r.v))

\* realTimeTrends, from the outcome of its request(): lines 110-125
RealTimeTrends(outcome) ==
  LET r == IF IsThrown(outcome) THEN outcome ELSE ExtractJsonFromResponse(outcome.v)
  IN IF IsThrown(r) THEN CatchToResult(r) ELSE Returned(DataResult(r.v))

Methods == {"dailyTrends", "realTimeTrends", "autocomplete"}

Method(m, outcome) ==
  CASE m = "dailyTrends" -> DailyTrends(outcome)
    [] m = "realTimeTrends" -> RealTimeTrends(outcome)
    [] m = "autocomplete" -> Autocomplete(outcome)

\* ----------------------------------- googleTrendsAPI.ts: explore and related
\* obj?.key
OptProp(v, key) == IF v.t \in {"null", "undefined"} THEN JUndefined ELSE Prop(v, key)

\* obj?.[i]
OptIndex(v, i) == IF v.t \in {"null", "undefined"} THEN JUndefined ELSE Index(v, i)

\* { widgets } and { error } of explore
WidgetsResult(widgets) == [widgets |-> Some(widgets), error |-> None]
ExploreError(class, message) ==
  [widgets |-> None, error |-> Some([class |-> class, message |-> message])]

\* { error: e } built from the error of another result: lines 238, 319, 421, 466
SameError(r) == [data |-> None, error |-> r.error]

\* What interestByRegion resolves with at line 285: the parsed document itself
Document(data) == [document |-> data]

\* The inner try block of explore: lines 166-182
ExploreWidgets(text) ==
  LET data == JSONParse(Slice(text, 5))
  IN CASE IsThrown(data) ->
            ExploreError("ParseError",
                         "Failed to parse explore response as JSON: " \o data.message)
       [] Truthy(data) /\ IsArray(data) /\ Len(data.a) > 0 ->
            WidgetsResult(OrElse(data.a[1], JArr(<<>>)))
       [] OTHER -> WidgetsResult(JArr(<<>>))

\* Mutant: explore does not look for an HTML page in the body.
IsHtmlNever(text) == FALSE

\* text.includes('<html') || text.includes('<!DOCTYPE'): line 161
IsHtml(text) == Includes(text, "<html") \/ Includes(text, "<!DOCTYPE")

\* explore, from the outcome of its request(): lines 156-188
Explore(outcome) ==
  CASE IsThrown(outcome) ->
         (IF InstanceOfError(outcome)
            THEN ExploreError("NetworkError", "Explore request failed: " \o outcome.message)
            ELSE ExploreError("UnknownError", "Explore request failed"))
    [] IsHtml(outcome.v) ->
         ExploreError("ParseError", "Explore request returned HTML instead of JSON")
    [] OTHER -> ExploreWidgets(outcome.v)

\* widgets.find(callback), `stops` being the positions of widgets where the
\* callback returns true or throws: a TypeError when widgets has no find
\* method or when the callback reads a property of null at the first of these
\* positions; undefined when there is none.
Find(widgets, stops) ==
  IF ~IsArray(widgets)
    THEN Thrown("TypeError", "exploreResponse.widgets.find is not a function")
    ELSE LET first == CHOOSE i \in stops : \A j \in stops : i <= j
         IN CASE stops = {} -> JUndefined
              [] widgets.a[first].t \in {"null", "undefined"} -> Prop(widgets.a[first], "id")
              [] OTHER -> widgets.a[first]

\* The positions of a list
Positions(widgets) == IF IsArray(widgets) THEN 1..Len(widgets.a) ELSE {}

\* Reading w.id throws.
NoProperties(w) == w.t \in {"null", "undefined"}

\* w => w.id === 'GEO_MAP': line 241
IsGeoMap(w) == Prop(w, "id") = JStr("GEO_MAP")

\* exploreResponse.widgets.find(w => w.id === 'GEO_MAP'): line 241
GeoMapWidget(widgets) ==
  Find(widgets, {i \in Positions(widgets) :
                   NoProperties(widgets.a[i]) \/ IsGeoMap(widgets.a[i])})

\* interestByRegion between its explore call and its own request: lines
\* 229-245. None when the method goes on to the request.
InterestByRegionExplored(explored) ==
  IF explored.error # None THEN Some(Returned(SameError(explored)))
  ELSE LET widget == GeoMapWidget(explored.widgets[1])
       IN CASE IsThrown(widget) -> Some(widget)
            [] ~Truthy(widget) ->
                 Some(Returned(ErrorResult("ParseError",
                                           "No GEO_MAP widget found in explore response")))
            [] OTHER -> None

\* The try block of interestByRegion around its own request: lines 280-291
InterestByRegionData(outcome) ==
  LET data == IF IsThrown(outcome) THEN outcome ELSE JSONParse(Slice(outcome.v, 5))
  IN IF IsThrown(data)
       THEN IF InstanceOfError(data)
              THEN Returned(ErrorResult("ParseError",
                     "Failed to parse interest by region response: " \o data.message))
              ELSE Returned(ErrorResult("ParseError",
                     "Failed to parse interest by region response"))
       ELSE Returned(Document(data))

\* widget.id === 'RELATED_TOPICS' ||
\* widget.request?.restriction?.complexKeywordsRestriction?.keyword?.[0]?.value
\*   === keyword: lines 328-329
IsRelatedTopics(kw, widget) ==
  \/ Prop(widget, "id") = JStr("RELATED_TOPICS")
  \/ OptProp(OptIndex(OptProp(OptProp(OptProp(Prop(widget, "request"),
       "restriction"), "complexKeywordsRestriction"), "keyword"), 0), "value")
     = JStr(kw)

\* exploreResponse.widgets.find(...) || exploreResponse.widgets[0]: lines
\* 327-330
RelatedTopicsWidget(kw, widgets) ==
  LET found == Find(widgets, {i \in Positions(widgets) :
                                NoProperties(widgets.a[i])
                                  \/ IsRelatedTopics(kw, widgets.a[i])})
  IN IF IsThrown(found) THEN found ELSE OrElse(found, Index(widgets, 0))

NoWidgetsMessage ==
  "No widgets found in explore response. This might be due to Google blocking "
    \o "the request, invalid parameters, or network issues."

\* Mutant: relatedTopics picks its widget outside the try block, as
\* interestByRegion does.
RelatedTopicsExploredUnguarded(kw, explored) ==
  IF explored.error # None THEN Some(Returned(SameError(explored)))
  ELSE LET widgets == explored.widgets[1]
           widget == RelatedTopicsWidget(kw, widgets)
       IN CASE ~Truthy(widgets) \/ (IsArray(widgets) /\ Len(widgets.a) = 0) ->
                 Some(Returned(ErrorResult("ParseError", NoWidgetsMessage)))
            [] IsThrown(widget) -> Some(widget)
            [] ~Truthy(widget) ->
                 Some(Returned(ErrorResult("ParseError",
                        "No related topics widget found in explore response")))
            [] OTHER -> None

\* relatedTopics between its explore call and its own request, inside the
\* try block: lines 309-334 and the catch block of lines 396-401. None when the method goes on to the request.
RelatedTopicsExplored(kw, explored) ==
  IF explored.error # None THEN Some(Returned(SameError(explored)))
  ELSE LET widgets == explored.widgets[1]
           widget == RelatedTopicsWidget(kw, widgets)
       IN CASE ~Truthy(widgets) \/ (IsArray(widgets) /\ Len(widgets.a) = 0) ->
                 Some(Returned(ErrorResult("ParseError", NoWidgetsMessage)))
            [] IsThrown(widget) -> Some(CatchToResult(widget))
            [] ~Truthy(widget) ->
                 Some(Returned(ErrorResult("ParseError",
                        "No related topics widget found in explore response")))
            [] OTHER -> None

\* The inner try block of relatedTopics: lines 378-394
RelatedTopicsData(text) ==
  LET data == JSONParse(Slice(text, 5))
      rankedList == IF IsThrown(data) THEN data
                    ELSE OptProp(Prop(data, "default"), "rankedList")
  IN IF IsThrown(rankedList)
       THEN IF InstanceOfError(rankedList)
              THEN Returned(ErrorResult("ParseError",
                     "Failed to parse related topics response: " \o rankedList.message))
              ELSE Returned(ErrorResult("ParseError", "Failed to parse related topics response"))
       ELSE Returned(DataResult([default |-> [rankedList |-> OrElse(rankedList, JArr(<<>>))]]))

\* relatedTopics from the outcome of its own request(): lines 374-401
RelatedTopicsRequested(outcome) ==
  IF IsThrown(outcome) THEN CatchToResult(outcome) ELSE RelatedTopicsData(outcome.v)

\* Mutant: the slice keeps eleven entries.
FirstEleven(s) == SubSeq(s, 1, IF Len(s) < 11 THEN Len(s) ELSE 11)

\* array.slice(0, 10)
FirstTen(s) == SubSeq(s, 1, IF Len(s) < 10 THEN Len(s) ELSE 10)

\* The entries of the suggestions s, `index` counting from 0: lines 424-430,
\* 471-481 and 483-489 (the link of an entry is left out)
Ranked(s) ==
  [i \in 1..Len(s) |->
     [query |-> s[i], value |-> 100 - (i - 1) * 10,
      formattedValue |-> NumToString(100 - (i - 1) * 10), hasData |-> TRUE]]
RankedTopics(s) ==
  [i \in 1..Len(s) |->
     [topic |-> [mid |-> "/m/" \o NatToString(i - 1), title |-> s[i], type |-> "Topic"],
      value |-> 100 - (i - 1) * 10,
      formattedValue |-> NumToString(100 - (i - 1) * 10), hasData |-> TRUE]]

\* relatedQueries with a keyword, from the outcome of the request() of its
\* autocomplete call: lines 418-446. `.data?.slice` is of a list: autocomplete
\* returns a list or an error.
RelatedQueries(outcome) ==
  LET r == Autocomplete(outcome)
  IN CASE IsThrown(r) -> CatchToResult(r)
       [] r.v.error # None -> Returned(SameError(r.v))
       [] OTHER ->
            Returned(DataResult(
              [default |-> [rankedList |-> <<[rankedKeyword |-> Ranked(FirstTen(r.v.data[1]))]>>]]))

\* relatedData with a keyword, from the outcome of the request() of its
\* autocomplete call: lines 463-502
RelatedData(outcome) ==
  LET r == Autocomplete(outcome)
  IN CASE IsThrown(r) -> CatchToResult(r)
       [] r.v.error # None -> Returned(SameError(r.v))
       [] OTHER -> Returned(DataResult([topics |-> RankedTopics(FirstTen(r.v.data[1])),
                                        queries |-> Ranked(FirstTen(r.v.data[1]))]))

\* The methods that take a keyword, and those of them that call explore first
KeywordMethods ==
  {"autocomplete", "explore", "interestByRegion", "relatedTopics", "relatedQueries",
   "relatedData"}
ExploreMethods == {"interestByRegion", "relatedTopics"}
ApiMethods == Methods \cup KeywordMethods

\* !keyword || keyword.trim() === ''
Blank(kw) == kw = "" \/ Trim(kw) = ""

\* Mutant: no method looks at its keyword before it calls the transport.
EarlyReturnNever(m, kw) == None

\* What method m returns before any request for the keyword it is given, None
\* when it goes on: lines 34-36, 304-306, 412-414, 457-459
EarlyReturn(m, kw) ==
  CASE m = "autocomplete" /\ kw = "" -> Some(Returned(DataResult(<<>>)))
    [] m = "relatedTopics" /\ Blank(kw) ->
         Some(Returned(ErrorResult("InvalidRequestError", "Keyword is required")))
    [] m \in {"relatedQueries", "relatedData"} /\ Blank(kw) ->
         Some(Returned(ErrorResult("ParseError", "")))
    [] OTHER -> None

\* options.qs.token of the request method m sends after an explore call that
\* returned `explored` (undefined when qs has no token): `token: widget.token`
\* at line 276, `...(relatedTopicsWidget.token && { token: ... })` at line 370
TokenOf(m, kw, explored) ==
  CASE m = "interestByRegion" ->
         Prop(GeoMapWidget(explored.widgets[1]), "token")
    [] m = "relatedTopics" ->
         LET t == Prop(RelatedTopicsWidget(kw, explored.widgets[1]), "token")
         IN IF Truthy(t) THEN t ELSE JUndefined

\* What method m does once its explore call has returned: its result, or None
\* when it goes on to its own request.
Explored(m, kw, outcome) ==
  CASE m = "interestByRegion" -> InterestByRegionExplored(Explore(outcome))
    [] m = "relatedTopics" -> RelatedTopicsExplored(kw, Explore(outcome))

\* The result of method m from the outcomes of its request() calls
Result(m, kw, outcomes) ==
  CASE m \in Methods -> Some(Method(m, outcomes[1]))
    [] m = "explore" -> Some(Returned(Explore(outcomes[1])))
    [] m = "relatedQueries" -> Some(RelatedQueries(outcomes[1]))
    [] m = "relatedData" -> Some(RelatedData(outcomes[1]))
    [] m \in ExploreMethods /\ Len(outcomes) = 1 -> Explored(m, kw, outcomes[1])
    [] m = "interestByRegion" -> Some(InterestByRegionData(outcomes[2]))
    [] m = "relatedTopics" -> Some(RelatedTopicsRequested(outcomes[2]))

\* ------------------------------------------------------ decoder inputs
\* The JSON text of a string value: how the server nests a document.
RECURSIVE EscapeFrom(_, _)
EscapeStep(s, i, p) ==
  IF p > Len(s) THEN SubSeq(s, i, Len(s))
  ELSE SubSeq(s, i, p - 1) \o "\\" \o Ch(s, p) \o EscapeFrom(s, p + 1)

EscapeFrom(s, i) ==
  CHOOSE y \in {EscapeStep(s, x[1], x[2]) : x \in {<<i, NextStop(s, i)>>}} : TRUE

Quote(s) == "\"" \o EscapeFrom(s, 1) \o "\""

\* The row of the comment at lines 566-578
SampleRow ==
  "[\"X\",null,\"US\",[100],null,null,\"500\",null,\"900\",[],[11],[],\"X\"]"

\* Texts found at position [0][2]
NestedTexts ==
  { "x", "null", "7", "{}", "[]", "[1]", "[null,null]", "[null,5]", "[null,[]]",
    "[null,[[]]]", "[null,[null,5,[\"T\"]]]",
    "[null,[" \o SampleRow \o "],3]",
    "[null,[" \o SampleRow \o ",[\"Y\",null,\"US\",[7],[9],null,0]]]" }

\* The envelope around a nested document
Envelope(nested) == "[[\"wrb.fr\",\"i0OFE\"," \o Quote(nested) \o ",null,\"generic\"]]"

\* Response bodies without the prefix
OuterTexts ==
  { "", "<html>", "null", "5", "\"abc\"", "{}", "[]", "[null]", "[5]", "[\"abc\"]",
    "[\"ab\"]", "[{}]", "[[]]", "[[1,2]]", "[[1,2,null]]", "[[1,2,0]]", "[[1,2,\"\"]]",
    "[[1,2,7]]", "[[1,2,true]]", "[[1,2,[1,2]]]", "[[1,2,[[null,[]]]]]" }
    \cup {Envelope(n) : n \in NestedTexts}

\* What stands before the body
Leads == {"", XssiPrefix, XssiPrefix \o "\n\n", XssiPrefix \o XssiPrefix, " " \o XssiPrefix}

Texts == {l \o o : l \in Leads, o \in OuterTexts}

\* The number of elements of a row set made of mixed elements
MaxRows == 3

Titles == {JNull, JStr("X"), JNum(7)}

Article5 == JArr(<<JStr("t"), JStr("u"), JNull, JNum(4), JStr("sn")>>)

Article4 == JArr(<<JStr("t4"), JStr("u4"), JStr("s4"), JStr("9")>>)

Article6 == JArr(<<JNum(0), JStr("u6"), JStr("s6"), JStr("9"), JStr("sn6"), JStr("more")>>)

Bundles ==
  { JNull,
    JArr(<<>>),
    JArr(<<JStr("n"), JStr("s")>>),
    JArr(<<JStr("n"), JNull, JStr("i")>>),
    JArr(<<JStr("n"), JStr("s"), JStr("i"), JNum(3)>>),
    JArr(<<JStr("n"), JStr("s"), JStr("i"),
           JArr(<<Article5, JArr(<<JStr("t")>>), JNull, Article4, Article6>>)>>) }

Starts == {JNull, JNum(100), JArr(<<>>), JArr(<<JNum(100)>>), JArr(<<JStr("100")>>)}

Ends ==
  {JNull, JNum(200), JArr(<<>>), JArr(<<JStr("200")>>), JArr(<<JNum(0)>>), JArr(<<JNum(200)>>)}

Traffics ==
  { JNull, JNum(0), JStr(""), JStr("500"), JNum(500), JBool(FALSE),
    JArr(<<>>), JArr(<<JNum(5)>>) }

Shares == {JNull, JStr("X")}

RowLengths == {0, 2, 5, 7, 13}

\* A row of thirteen positions; positions 2, 5 and 7 to 11 are not decoded.
FullRow(title, bundle, start, end, traffic, share) ==
  << title, bundle, JStr("US"), start, end, JNull, traffic, JNull, JStr("900"),
     JArr(<<>>), JArr(<<JNum(11)>>), JArr(<<>>), share >>

\* Rows of every shape at the decoded positions, cut to every length
Rows ==
  { JArr(SubSeq(FullRow(ti, b, s, e, tr, sh), 1, n)) :
      ti \in Titles, b \in Bundles, s \in Starts, e \in Ends, tr \in Traffics,
      sh \in Shares, n \in RowLengths }

\* Elements of a row set: rows and what is no row
Elements ==
  { JNull, JNum(5), JStr("row"), JObj(<<>>), JArr(<<>>),
    JArr(FullRow(JStr("X"), JNull, JArr(<<JNum(100)>>), JNull, JStr("500"), JStr("X"))),
    JArr(FullRow(JStr("Y"), JNull, JArr(<<JNum(7)>>), JArr(<<JNum(9)>>), JNum(0), JNull)) }

\* What stands at position [1] of the nested document
RowSets ==
  {JArr(<<r>>) : r \in Rows}
    \cup {JArr(s) : s \in UNION {[1..n -> Elements] : n \in 0..MaxRows}}
    \cup {JNull, JNum(5), JStr("rows"), JObj(<<>>)}

\* Eleven suggestions, one more than relatedQueries and relatedData keep
ElevenTopics ==
  "{\"title\":\"a\"},{\"title\":\"b\"},{\"title\":\"c\"},{\"title\":\"d\"},"
    \o "{\"title\":\"e\"},{\"title\":\"f\"},{\"title\":\"g\"},{\"title\":\"h\"},"
    \o "{\"title\":\"i\"},{\"title\":\"j\"},{\"title\":\"k\"}"

\* Bodies the server answers a method with (autocomplete, explore and the
\* widget endpoints answer behind a prefix of five characters)
ApiTexts ==
  { "", "<html>", XssiPrefix \o "\n\n[null]",
    XssiPrefix \o "\n\n" \o Envelope("[null,[" \o SampleRow \o "]]"),
    XssiPrefix \o "\n\n" \o Envelope("[null,[]]"),
    XssiPrefix \o "\n\n" \o Envelope("[1]"),
    XssiPrefix \o "\n\n" \o Envelope("x"),
    XssiPrefix \o ",\n{\"default\":{\"topics\":[{\"title\":\"a\"},{\"title\":\"b\"}]}}",
    XssiPrefix \o ",\n{\"default\":{\"topics\":[]}}",
    XssiPrefix \o ",\n{\"default\":{\"topics\":[null]}}",
    XssiPrefix \o ",\n{\"default\":{}}",
    XssiPrefix \o ",\n{}",
    XssiPrefix \o ",\nnull",
    "<!DOCTYPE html>",
    XssiPrefix \o "\n[[{\"id\":\"GEO_MAP\",\"token\":\"t\"},{\"id\":\"RELATED_TOPICS\"}]]",
    XssiPrefix \o "\n[[{\"id\":\"TIMESERIES\"}]]",
    XssiPrefix \o "\n[[{\"request\":{\"restriction\":{\"complexKeywordsRestriction\":"
      \o "{\"keyword\":[{\"value\":\"go\"}]}}}},{\"id\":\"GEO_MAP\",\"token\":\"u\"}]]",
    XssiPrefix \o "\n[[null]]",
    XssiPrefix \o "\n[[0]]",
    XssiPrefix \o "\n[5]",
    XssiPrefix \o "\n[]",
    XssiPrefix \o "\n{\"widgets\":[]}",
    XssiPrefix \o "\n{\"default\":{\"rankedList\":[1]}}",
    XssiPrefix \o "\n<html>",
    XssiPrefix \o "\n[[{\"id\":\"GEO_MAP\",\"title\":\"<html\"}]]",
    XssiPrefix \o "{\"default\":{\"topics\":[{\"title\":\"c\"}]}}",
    XssiPrefix \o ",\n{\"default\":{\"topics\":[" \o ElevenTopics \o "]}}" }

ApiResponses ==
  [statusCode : {200, 302, 400, 401, 429}, setCookie : {<<>>, <<"NID=1; Path=/; HttpOnly">>},
   chunk : ApiTexts]

\* The message of the Error a failed attempt emits
FaultMessage == "socket hang up"

\* ------------------------------------------------------ decoder actions
\* extractJsonFromResponse(text)
ExtractJson(text) ==
  /\ fn = "none"
  /\ fn' = "extractJsonFromResponse"
  /\ input' = text
  /\ output' = ExtractJsonFromResponse(text)
  /\ UNCHANGED <<transportVars, keyword, token, lastResponse>>

NextDecode == fn = "none" /\ \E text \in Texts : ExtractJson(text)

SpecDecode == Init /\ [][NextDecode]_vars

\* updateResponseObject(data)
UpdateRows(data) ==
  /\ fn = "none"
  /\ fn' = "updateResponseObject"
  /\ input' = data
  /\ output' = UpdateResponseObject(data)
  /\ UNCHANGED <<transportVars, keyword, token, lastResponse>>

NextRows == fn = "none" /\ \E data \in RowSets : UpdateRows(data)

SpecRows == Init /\ [][NextRows]_vars

\* The keywords a method is called with, and the geo of the trends methods
Keywords == {"", " ", "go"}
Geos == {"US"}

ApiCalls ==
  ({"dailyTrends", "realTimeTrends"} \X Geos) \cup (KeywordMethods \X Keywords)

\* Mutant: the trends methods ask request() for backoff.
EnableBackoffOfTrends(m) == m \in {"dailyTrends", "realTimeTrends"}

\* The enableBackoff argument method m gives request(): every call site
\* passes (url, options) only, so the default of part_001 line 89 applies.
EnableBackoffOf(m) == FALSE

\* The caller awaits each method before it calls the next.
Ready == pc["A"] = "idle" /\ (fn \in ApiMethods => output # None)

\* Method m is called and reaches its request(url, options), enableBackoff
\* left to its default.
Invoke(m, k) ==
  /\ Ready
  /\ EarlyReturn(m, k) = None
  /\ Request("A", EnableBackoffOf(m))
  /\ fn' = m
  /\ keyword' = k
  /\ token' = None
  /\ input' = None
  /\ output' = None
  /\ UNCHANGED lastResponse

\* Method m is called and returns before any request.
ReturnEarly(m, k) ==
  /\ Ready
  /\ EarlyReturn(m, k) # None
  /\ fn' = m
  /\ keyword' = k
  /\ token' = None
  /\ input' = None
  /\ output' = EarlyReturn(m, k)
  /\ UNCHANGED <<transportVars, lastResponse>>

\* What `await request(...)` and `await response.text()` give the method
TransportOutcome(c) ==
  IF pc[c] = "resolved" THEN Returned(result[c][1]) ELSE Thrown("Error", FaultMessage)

\* request() has settled: the method runs to its return, or to its next
\* request.
Complete ==
  /\ fn \in ApiMethods
  /\ output = None
  /\ Return("A")
  /\ input' = Append(input, TransportOutcome("A"))
  /\ output' = Result(fn, keyword, Append(input, TransportOutcome("A")))
  /\ UNCHANGED <<fn, keyword, token, lastResponse>>

\* interestByRegion or relatedTopics calls request() with what explore gave.
Proceed ==
  /\ fn \in ExploreMethods
  /\ output = None
  /\ Len(input) = 1
  /\ Request("A", EnableBackoffOf(fn))
  /\ token' = Some(TokenOf(fn, keyword, Explore(input[1])))
  /\ UNCHANGED <<fn, input, output, keyword, lastResponse>>

NextApi ==
  \/ \E call \in ApiCalls : Invoke(call[1], call[2])
  \/ \E call \in ApiCalls : ReturnEarly(call[1], call[2])
  \/ \E r \in ApiResponses : EndResolve("A", r) /\ UNCHANGED decodeVars
  \/ RequestError("A") /\ UNCHANGED decodeVars
  \/ Complete
  \/ Proceed

SpecApi == Init /\ [][NextApi]_vars

\* --------------------------------------- request(): the options, 94-119
\* querystring.escape over the characters the bodies of the model hold
QsEscapeChar(ch) ==
  CASE ch = " " -> "%20"
    [] ch = "&" -> "%26"
    [] ch = "=" -> "%3D"
    [] OTHER -> ch

RECURSIVE QsEscape(_)
QsEscape(s) ==
  IF s = "" THEN "" ELSE QsEscapeChar(SubSeq(s, 1, 1)) \o QsEscape(SubSeq(s, 2, Len(s)))

\* A body that is a mapping: its <<key, value>> pairs in insertion order, the
\* values strings and numbers.
\* querystring.stringify(mapping)
RECURSIVE QsStringify(_)
QsStringify(m) ==
  IF m = <<>> THEN ""
  ELSE QsEscape(m[1][1]) \o "=" \o QsEscape(StringOf(m[1][2]))
         \o (IF Len(m) = 1 THEN "" ELSE "&" \o QsStringify(Tail(m)))

\* JSON.stringify of a string or a number
JsonOf(v) == IF v.t = "string" THEN Quote(v.s) ELSE StringOf(v)

RECURSIVE JsonMembers(_)
JsonMembers(m) ==
  IF m = <<>> THEN ""
  ELSE Quote(m[1][1]) \o ":" \o JsonOf(m[1][2])
         \o (IF Len(m) = 1 THEN "" ELSE "," \o JsonMembers(Tail(m)))

\* JSON.stringify(mapping)
JsonStringify(m) == "{" \o JsonMembers(m) \o "}"

\* options.body: a string or a mapping
StringBody(s) == [t |-> "string", s |-> s]
MappingBody(m) == [t |-> "mapping", m |-> m]

\* const contentType = options.contentType || 'json': line 96
ContentTypeOf(options) ==
  IF options.contentType = None \/ options.contentType[1] = ""
    THEN "json" ELSE options.contentType[1]

\* bodyString: lines 95-104
BodyString(options) ==
  CASE options.body # None /\ options.body[1].t = "string" -> options.body[1].s
    [] ContentTypeOf(options) = "form" ->
         QsStringify(IF options.body = None THEN <<>> ELSE options.body[1].m)
    [] options.body # None -> JsonStringify(options.body[1].m)
    [] OTHER -> ""

\* Buffer.byteLength of a string of ASCII characters
ByteLength(s) == Len(s)

\* Mutant: the headers of the caller are spread last.
BuildHeadersCallerLast(options, cookie) ==
  LET typed == [k \in {"Content-Type"} |->
                  IF ContentTypeOf(options) = "form"
                    THEN "application/x-www-form-urlencoded" ELSE "application/json"]
      sized == IF BodyString(options) # ""
                 THEN SetHeader(typed, "Content-Length",
                                NatToString(ByteLength(BodyString(options))))
                 ELSE typed
      own == IF cookie # None /\ cookie[1] # ""
               THEN SetHeader(sized, "cookie", cookie[1]) ELSE sized
      caller == IF options.headers = None THEN <<>> ELSE options.headers[1]
  IN [k \in DOMAIN own \cup DOMAIN caller |-> IF k \in DOMAIN caller THEN caller[k] ELSE own[k]]

\* The headers literal of requestOptions for any options: lines 111-118
BuildHeaders(options, cookie) ==
  LET caller == IF options.headers = None THEN <<>> ELSE options.headers[1]
      typed == SetHeader(caller, "Content-Type",
                         IF ContentTypeOf(options) = "form"
                           THEN "application/x-www-form-urlencoded"
                           ELSE "application/json")
      sized == IF BodyString(options) # ""
                 THEN SetHeader(typed, "Content-Length",
                                NatToString(ByteLength(BodyString(options))))
                 ELSE typed
  IN IF cookie # None /\ cookie[1] # ""
       THEN SetHeader(sized, "cookie", cookie[1])
       ELSE sized

\* The options request() is called with
OptionBodies ==
  { None, Some(StringBody("")), Some(StringBody("f.req=x")), Some(MappingBody(<<>>)),
    Some(MappingBody(<< <<"hl", JStr("en US")>>, <<"tz", JNum(240)>> >>)) }

OptionHeaders ==
  { None,
    Some([k \in {"Content-Type"} |-> "text/plain"]),
    Some([k \in {"X-Client"} |-> "trends"]) }

Descriptors ==
  [body : OptionBodies, headers : OptionHeaders, contentType : {None, Some("json"), Some("form")}]

\* The responses a call with options is run against
DescriptorResponses ==
  [statusCode : {200, 302, 429}, setCookie : {<<>>, <<"NID=1; Path=/; HttpOnly">>},
   chunk : {"{}"}]

\* request(url, options, enableBackoff) with any options: the headers are
\* built and the first attempt is sent.
RequestWith(c, options, backoff) ==
  /\ pc[c] = "idle"
  /\ LET h == BuildHeaders(options, cookieVal)
     IN /\ headers' = [headers EXCEPT ![c] = h]
        /\ wire' = [wire EXCEPT ![c] = Some(h)]
  /\ attempt' = [attempt EXCEPT ![c] = FirstAttempt(backoff)]
  /\ enableBackoff' = [enableBackoff EXCEPT ![c] = backoff]
  /\ pc' = [pc EXCEPT ![c] = "awaiting"]
  /\ via' = [via EXCEPT ![c] = <<>>]
  /\ attemptsSent' = [attemptsSent EXCEPT ![c] = 1]
  /\ res' = [res EXCEPT ![c] = NoResponse]
  /\ result' = [result EXCEPT ![c] = None]
  /\ fn' = "request"
  /\ input' = options
  /\ output' = None
  /\ UNCHANGED <<cookieVal, delay, cookieLog, keyword, token, lastResponse>>

\* One caller that passes every kind of options (Math.random() = 0 in every
\* backoff).
NextDescriptor ==
  \/ \E options \in Descriptors, b \in BOOLEAN : RequestWith("A", options, b)
  \/ \E r \in DescriptorResponses : EndRedirect("A", r) /\ UNCHANGED decodeVars
  \/ \E r \in DescriptorResponses : EndBackoff("A", r, 0, 1) /\ UNCHANGED decodeVars
  \/ \E r \in DescriptorResponses : EndResolve("A", r) /\ UNCHANGED decodeVars
  \/ Wake("A") /\ UNCHANGED decodeVars
  \/ RequestError("A") /\ UNCHANGED decodeVars
  \/ Return("A") /\ UNCHANGED decodeVars

SpecDescriptor == Init /\ [][NextDescriptor]_vars

\* ------------------------------------- one caller that decodes what it gets
\* The responses a caller that decodes is run against
SessionResponses ==
  [statusCode : {200, 302, 401, 429},
   setCookie : SetCookieHeaders,
   chunk : { "<html>",
             XssiPrefix \o "\n\n" \o Envelope("[null,[" \o SampleRow \o "]]"),
             XssiPrefix \o ",\n{\"default\":{\"topics\":[{\"title\":\"a\"}]}}" }]

\* The decode operations of the methods
Decoders == {"extractJsonFromResponse", "autocomplete parse"}

\* The caller applies a decode operation to the text request() resolved
\* with: googleTrendsAPI.ts lines 48-51 and 78-79.  Neither format.ts nor
\* the parse of autocomplete refers to cookieVal, which is local to the
\* module of request().
DecodeResolved(f) ==
  /\ pc["A"] = "resolved"
  /\ fn' = f
  /\ input' = result["A"][1]
  /\ output' = IF f = "extractJsonFromResponse"
                 THEN ExtractJsonFromResponse(result["A"][1])
                 ELSE AutocompleteTitles(result["A"][1])
  /\ UNCHANGED <<transportVars, keyword, token, lastResponse>>

NextSession ==
  \/ \E b \in BOOLEAN : Request("A", b) /\ UNCHANGED decodeVars
  \/ \E r \in SessionResponses : EndRedirect("A", r) /\ UNCHANGED decodeVars
  \/ \E r \in SessionResponses : EndBackoff("A", r, 0, 1) /\ UNCHANGED decodeVars
  \/ \E r \in SessionResponses : EndResolve("A", r) /\ UNCHANGED decodeVars
  \/ Wake("A") /\ UNCHANGED decodeVars
  \/ RequestError("A") /\ UNCHANGED decodeVars
  \/ \E f \in Decoders : DecodeResolved(f)
  \/ Return("A") /\ UNCHANGED decodeVars

SpecSession == Init /\ [][NextSession]_vars

\* One caller whose calls follow one another, the response handled last
\* being kept from one call to the next (Math.random() = 0 in every backoff).
Handled(r) ==
  /\ lastResponse' = r
  /\ UNCHANGED <<fn, input, output, keyword, token>>

NextSequential ==
  \/ \E b \in BOOLEAN : Request("A", b) /\ UNCHANGED decodeVars
  \/ \E r \in ConcurrentResponses : EndRedirect("A", r) /\ Handled(r)
  \/ \E r \in ConcurrentResponses : EndBackoff("A", r, 0, 1) /\ Handled(r)
  \/ \E r \in ConcurrentResponses : EndResolve("A", r) /\ Handled(r)
  \/ Wake("A") /\ UNCHANGED decodeVars
  \/ RequestError("A") /\ UNCHANGED decodeVars
  \/ Return("A") /\ UNCHANGED decodeVars

SpecSequential == Init /\ [][NextSequential]_vars

\* ============================================================ claims
\* The step of call c is the run of its 'end' handler on res'[c].
Processed(c) ==
  /\ pc[c] = "awaiting"
  /\ res'[c] # NoResponse
  /\ \/ pc'[c] \in {"sleeping", "resolved"}
     \/ pc'[c] = "awaiting" /\ attemptsSent'[c] = attemptsSent[c] + 1

\* The step sends an HTTP attempt of call c.
Sent(c) ==
  /\ pc'[c] = "awaiting"
  /\ attemptsSent'[c] # attemptsSent[c]

\* Rate-limited as the specification classifies a response.
ClassifiedRateLimited(r) ==
  \/ r.statusCode \in {429, 401}
  \/ Includes(r.chunk, "Error 429")
  \/ Includes(r.chunk, "Too Many Requests")

HasCookieHeader(h) == "cookie" \in DOMAIN h

\* C1: a call with backoff enabled sends at most 4 attempts; the attempt
\* index starts at 0, is one less than the number of attempts sent (so it
\* grows by one with every retry, after a rate limit and after a redirect
\* alike) and never exceeds MAX_RETRIES = 3.
C1_AttemptsBounded ==
  \A c \in Calls :
    (pc[c] # "idle" /\ enableBackoff[c]) =>
      /\ attemptsSent[c] \in 1..4
      /\ attempt[c] \in 0..3
      /\ attempt[c] = attemptsSent[c] - 1
      /\ pc[c] \in {"awaiting", "sleeping"} => Len(via[c]) = attempt[c]

\* A fourth attempt on the wire after retries of both causes.
C1_Witness ==
  /\ pc["A"] = "awaiting"
  /\ enableBackoff["A"]
  /\ attemptsSent["A"] = 4
  /\ \E i, j \in 1..3 : via["A"][i] = "redirect" /\ via["A"][j] = "backoff"

\* C2: a call with enableBackoff = false sends exactly one attempt, never
\* waits, and resolves with the body of the one response it got, whatever
\* that response is.
C2_SingleAttempt ==
  \A c \in Calls :
    (pc[c] # "idle" /\ ~enableBackoff[c]) =>
      /\ attemptsSent[c] = 1
      /\ pc[c] # "sleeping"
      /\ delay[c] = 0
      /\ pc[c] = "resolved" => result[c] = Some(res[c].chunk)

\* A no-backoff call that resolved with a retryable response.
C2_Witness ==
  /\ pc["A"] = "resolved"
  /\ ~enableBackoff["A"]
  /\ res["A"].statusCode = 302
  /\ Includes(res["A"].chunk, "Too Many Requests")
  /\ result["A"] = Some(res["A"].chunk)

\* The backoff wait of a call ends in attempt n+1 and nothing else.
WaitThenNextAttempt(c) ==
  (pc[c] = "sleeping" /\ pc'[c] # "sleeping") =>
    /\ pc'[c] = "awaiting"
    /\ attempt'[c] = attempt[c] + 1
    /\ attemptsSent'[c] = attemptsSent[c] + 1

\* C3 as stated: every response at attempt index n < 3 that is classified
\* rate-limited (429, 401, or a body with 'Error 429' / 'Too Many Requests')
\* is followed by a backoff wait and only then by attempt n+1.
C3_Original ==
  [][\A c \in Calls :
       /\ (Processed(c) /\ attempt[c] < 3 /\ ClassifiedRateLimited(res'[c])) =>
            /\ pc'[c] = "sleeping"
            /\ attemptsSent'[c] = attemptsSent[c]
            /\ result'[c] = None
       /\ WaitThenNextAttempt(c)]_vars

\* C3 as amended: the same for every such response whose status is not 302;
\* the wait ends, and attempt n+1 is then on the wire.
C3_RateLimitedWaits ==
  /\ [][\A c \in Calls :
          /\ (/\ Processed(c)
              /\ attempt[c] < 3
              /\ ClassifiedRateLimited(res'[c])
              /\ res'[c].statusCode # 302) =>
               /\ pc'[c] = "sleeping"
               /\ delay'[c] > 0
               /\ attemptsSent'[c] = attemptsSent[c]
               /\ result'[c] = None
          /\ WaitThenNextAttempt(c)]_vars
  /\ \A n \in 0..2 :
       (pc["A"] = "sleeping" /\ attempt["A"] = n)
         ~> (pc["A"] = "awaiting" /\ attempt["A"] = n + 1)

\* Attempt 2 is on the wire after the wait that a 200 response with a
\* 'Too Many Requests' body caused at attempt 1.
C3_Witness ==
  /\ pc["A"] = "awaiting"
  /\ attempt["A"] = 2
  /\ via["A"][2] = "backoff"
  /\ res["A"].statusCode = 200
  /\ Includes(res["A"].chunk, "Too Many Requests")

\* 750 * 2^n for the attempt indices that can wait
BaseDelayOf(n) == CASE n = 0 -> 750 [] n = 1 -> 1500 [] n = 2 -> 3000

\* C4: the delay of every backoff wait after attempt index n (0..2) lies in
\* [750 * 2^n, 750 * 2^n + 250).
C4_DelayInRange ==
  \A c \in Calls :
    pc[c] = "sleeping" =>
      /\ attempt[c] \in 0..2
      /\ BaseDelayOf(attempt[c]) <= delay[c]
      /\ delay[c] < BaseDelayOf(attempt[c]) + 250

\* A wait after attempt index 2 with the largest jitter.
C4_Witness ==
  /\ pc["A"] = "sleeping"
  /\ attempt["A"] = 2
  /\ delay["A"] = 3249

\* C5: a response to the final attempt (index 3: the fourth attempt of a
\* backoff call, or the only attempt of a no-backoff call) that is
\* rate-limited or a 302 resolves the call with the body of that response;
\* the call does not reject and sends nothing more.
C5_ExhaustedResolvesLastBody ==
  [][\A c \in Calls :
       (/\ Processed(c)
        /\ attempt[c] = 3
        /\ ClassifiedRateLimited(res'[c]) \/ res'[c].statusCode = 302) =>
         /\ pc'[c] = "resolved"
         /\ result'[c] = Some(res'[c].chunk)
         /\ attemptsSent'[c] = attemptsSent[c]]_vars

\* A backoff call resolved by the 302 its fourth attempt got, with a body
\* that differs from 'Error 429'.
C5_Witness ==
  /\ pc["A"] = "resolved"
  /\ enableBackoff["A"]
  /\ attemptsSent["A"] = 4
  /\ res["A"].statusCode = 302
  /\ result["A"] = Some("<p>Too Many Requests</p>")

\* C6: after a 302 is processed cookieVal is empty and the headers of the
\* call carry no cookie, also when the 302 carried Set-Cookie; with attempt
\* index < 3 the next attempt is sent in the same step, without a wait and
\* without a cookie header, and otherwise the body of the 302 is returned.
C6_RedirectDropsCookie ==
  [][\A c \in Calls :
       (Processed(c) /\ res'[c].statusCode = 302) =>
         /\ cookieVal' = None
         /\ ~HasCookieHeader(headers'[c])
         /\ IF attempt[c] < 3
              THEN /\ pc'[c] = "awaiting"
                   /\ attempt'[c] = attempt[c] + 1
                   /\ attemptsSent'[c] = attemptsSent[c] + 1
                   /\ delay'[c] = 0
                   /\ wire'[c] # None
                   /\ ~HasCookieHeader(wire'[c][1])
              ELSE /\ pc'[c] = "resolved"
                   /\ result'[c] = Some(res'[c].chunk)]_vars

\* The attempt sent right after a 302 that carried Set-Cookie, while the
\* other call still holds a cookie in its own headers.
C6_Witness ==
  /\ pc["A"] = "awaiting"
  /\ res["A"] # NoResponse
  /\ res["A"].statusCode = 302
  /\ Len(res["A"].setCookie) > 0
  /\ cookieVal = None
  /\ pc["B"] = "sleeping"
  /\ HasCookieHeader(headers["B"])

\* Neither rate-limited nor a redirect, as the specification classifies.
ClassifiedTerminal(r) ==
  /\ r.statusCode \notin {429, 401, 302}
  /\ ~Includes(r.chunk, "Error 429")
  /\ ~Includes(r.chunk, "Too Many Requests")

\* C7: a response that is neither rate-limited nor a 302 ends the call at
\* any attempt index: the call resolves with exactly that body, with no
\* further attempt and no wait, whatever the status code.
C7_TerminalResolves ==
  [][\A c \in Calls :
       (Processed(c) /\ ClassifiedTerminal(res'[c])) =>
         /\ pc'[c] = "resolved"
         /\ result'[c] = Some(res'[c].chunk)
         /\ attemptsSent'[c] = attemptsSent[c]
         /\ delay'[c] = 0]_vars

\* A 500 with an HTML body resolved a call at attempt index 1.
C7_Witness ==
  /\ pc["A"] = "resolved"
  /\ attempt["A"] = 1
  /\ res["A"].statusCode = 500
  /\ result["A"] = Some("<html>")

\* v is the text of s before its first ';' (all of s when it has none).
IsFirstSegment(v, s) ==
  \E n \in 0..Len(s) :
    /\ v = SubSeq(s, 1, n)
    /\ ~Includes(v, ";")
    /\ n = Len(s) \/ SubSeq(s, n + 1, n + 1) = ";"

\* C8: every response that carries Set-Cookie and is not a 302 overwrites
\* cookieVal with the name=value segment of the first Set-Cookie value, and
\* when the call retries, the cookie header of its next attempt is that value.
C8_SetCookieStored ==
  [][\A c \in Calls :
       /\ (/\ Processed(c)
           /\ Len(res'[c].setCookie) > 0
           /\ res'[c].statusCode # 302) =>
            /\ cookieVal' # None
            /\ IsFirstSegment(cookieVal'[1], res'[c].setCookie[1])
            /\ HasCookieHeader(headers'[c])
            /\ headers'[c]["cookie"] = cookieVal'[1]
       /\ (/\ pc[c] = "sleeping"
           /\ pc'[c] = "awaiting"
           /\ Len(res[c].setCookie) > 0) =>
            /\ wire'[c] # None
            /\ HasCookieHeader(wire'[c][1])
            /\ IsFirstSegment(wire'[c][1]["cookie"], res[c].setCookie[1])]_vars

\* A retry on the wire with the cookie its call learned from the response
\* before the wait, after the other call has replaced cookieVal.
C8_Witness ==
  /\ pc["A"] = "awaiting"
  /\ attempt["A"] = 1
  /\ via["A"] = <<"backoff">>
  /\ res["A"].setCookie = <<"NID=1; Path=/; HttpOnly">>
  /\ wire["A"][1]["cookie"] = "NID=1"
  /\ cookieVal = Some("SID=2")

\* The cookie header of the attempt call c sends in this step is the value
\* of cookieVal at that moment, and is absent exactly when cookieVal is empty.
SendsCurrentCookie(c) ==
  /\ wire'[c] # None
  /\ cookieVal' = None => ~HasCookieHeader(wire'[c][1])
  /\ cookieVal' # None =>
       /\ HasCookieHeader(wire'[c][1])
       /\ wire'[c][1]["cookie"] = cookieVal'[1]

\* C9 as stated: every attempt, first or retry, of every call carries the
\* cookie cookieVal holds when the attempt is sent.
C9_Original ==
  [][\A c \in Calls : Sent(c) => SendsCurrentCookie(c)]_vars

\* C9 as amended: the first attempt of a call and a retry sent directly after
\* a 302 carry the cookie cookieVal holds at that moment; a retry sent after
\* a backoff wait carries the cookie header the call held when it began to
\* wait.
C9_AttemptCookie ==
  [][\A c \in Calls :
       /\ (Sent(c) /\ pc[c] \in {"idle", "awaiting"}) => SendsCurrentCookie(c)
       /\ (Sent(c) /\ pc[c] = "sleeping") => wire'[c] = Some(headers[c])]_vars

\* A first attempt that carries the stored cookie while the other call is
\* in its backoff wait with no cookie header of its own.
C9_Witness ==
  /\ pc["A"] = "awaiting"
  /\ attemptsSent["A"] = 1
  /\ cookieVal # None
  /\ HasCookieHeader(wire["A"][1])
  /\ wire["A"][1]["cookie"] = cookieVal[1]
  /\ pc["B"] = "sleeping"
  /\ ~HasCookieHeader(headers["B"])

\* C10: the cookie one call stored can be dropped by the 302 of another
\* call.  In every behaviour a stored cookie leaves cookieVal only in a step
\* in which some call processes a 302, and that call need not be the one
\* that stored it: C10_Witness is reached.
C10_CookieLostOnlyByRedirect ==
  [][(cookieVal # None /\ cookieVal' = None) =>
       \E c \in Calls :
         /\ Processed(c)
         /\ res'[c].statusCode = 302
         /\ cookieLog'.clearedBy = Some(c)]_vars

\* The latest store was by a call of A that then resolved and saw no 302;
\* the first clear since was by the call of B that was in flight at that
\* store; the present call of A has processed no response and its first
\* attempt carries no cookie.  cookieVal held A's cookie from the store to
\* B's clear, so this call started after the clear.
C10_Witness ==
  /\ cookieLog = [setBy |-> Some("A"), final |-> TRUE, overlap |-> {"B"},
                  clearedBy |-> Some("B")]
  /\ cookieVal = None
  /\ pc["A"] = "awaiting"
  /\ attemptsSent["A"] = 1
  /\ res["A"] = NoResponse
  /\ ~HasCookieHeader(wire["A"][1])

\* ---------------------------------------------------------------- C11
\* The step of call c is the run of its 'end' handler on the complete
\* response res'[c], whatever the handler does with it.
HandlerRan(c) == pc[c] = "awaiting" /\ res'[c] # NoResponse

\* C11: a call whose attempts all receive a complete HTTP response never
\* rejects: the handler of a response leaves the call waiting, retrying or
\* resolved with the body of that response, and a call fails only in a step
\* in which its attempt got no response.
C11_ResponsesNeverReject ==
  [][\A c \in Calls :
       /\ HandlerRan(c) =>
            /\ pc'[c] \in {"awaiting", "sleeping", "resolved"}
            /\ pc'[c] = "resolved" => result'[c] = Some(res'[c].chunk)
       /\ (pc'[c] \in {"rejected", "orphaned"} /\ pc'[c] # pc[c]) =>
            (pc[c] = "awaiting" /\ res'[c] = NoResponse)]_vars

\* A call resolved after four attempts that were all answered, the last one
\* with a rate-limited response.
C11_Witness ==
  /\ pc["A"] = "resolved"
  /\ attemptsSent["A"] = MAX_RETRIES + 1
  /\ IsRateLimited(res["A"])
  /\ result["A"] = Some(res["A"].chunk)

\* ---------------------------------------------------------------- C12
\* C12: in a backoff-enabled call a transport fault on an attempt whose index
\* is below MAX_RETRIES does not by itself make request() reject.
C12_FaultRaisedOnlyWhenExhausted ==
  [][\A c \in Calls :
       (enableBackoff[c] /\ pc[c] = "awaiting" /\ attempt[c] < MAX_RETRIES) =>
         pc'[c] # "rejected"]_vars

\* ---------------------------------------------------------------- C13
\* C13: a call whose attempt fails settles: a transport fault, also one on an
\* attempt issued after a 302, leaves the call rejected and never with a
\* promise that cannot settle any more.
C13_FaultSettles ==
  [][\A c \in Calls :
       (pc[c] = "awaiting" /\ pc'[c] # "awaiting" /\ ~HandlerRan(c)) =>
         pc'[c] = "rejected"]_vars

\* ---------------------------------------------------------------- C14
\* The messages of the decode stages
DecodeMessages ==
  { "Failed to parse response",
    "Invalid response format: empty array",
    "Invalid response format: missing nested JSON",
    "Invalid response format: missing data array",
    "Invalid data format: expected array" }

\* dailyTrends or realTimeTrends has returned, and the text its request
\* resolved with fails a decode stage.
TrendsDecodeFailed ==
  /\ fn \in {"dailyTrends", "realTimeTrends"}
  /\ output # None
  /\ input # None
  /\ ~IsThrown(input[1])
  /\ IsThrown(ExtractJsonFromResponse(input[1].v))

\* The error of a method's result is of class `class`.
ResultErrorIs(class) ==
  /\ output[1].t = "return"
  /\ output[1].v.data = None
  /\ output[1].v.error # None
  /\ output[1].v.error[1].class = class

\* C14 as stated: when the response text of dailyTrends or realTimeTrends
\* fails a decode stage, the result carries an error that is a ParseError.
C14_Original == TrendsDecodeFailed => ResultErrorIs("ParseError")

\* C14: when the response text of dailyTrends or realTimeTrends fails a decode
\* stage, the result is never a success and carries an error that is a
\* NetworkError whose message is the message of the decode stage.
C14_DecodeFailureIsNetworkError ==
  TrendsDecodeFailed =>
    /\ ResultErrorIs("NetworkError")
    /\ output[1].v.error[1].message \in DecodeMessages
    /\ output[1].v.error[1].message = ExtractJsonFromResponse(input[1].v).message

\* dailyTrends returned for a body whose nested document is too short.
C14_Witness ==
  /\ TrendsDecodeFailed
  /\ fn = "dailyTrends"
  /\ output[1].v.error[1].message = "Invalid response format: missing data array"

\* ---------------------------------------------------------------- C15
\* What request() gave method m cannot be turned into a result: the attempt
\* failed, or the text does not decode.
Unusable(m, outcome) ==
  \/ IsThrown(outcome)
  \/ m = "autocomplete" /\ IsThrown(AutocompleteTitles(outcome.v))
  \/ m # "autocomplete" /\ IsThrown(ExtractJsonFromResponse(outcome.v))

\* C15: a method whose server answer cannot be turned into a result does not
\* reject: it returns a result without data whose error is a NetworkError.
C15_UnusableAnswerIsNetworkError ==
  (fn \in Methods /\ output # None /\ input # None) =>
    /\ output[1].t = "return"
    /\ Unusable(fn, input[1]) => ResultErrorIs("NetworkError")

\* autocomplete returned a NetworkError for an HTML body.
C15_Witness ==
  /\ fn = "autocomplete"
  /\ output # None
  /\ input = Some(Returned("<html>"))
  /\ ResultErrorIs("NetworkError")

\* ---------------------------------------------------------------- C16
\* The outer value of the text that extractJsonFromResponse was applied to
OuterValue == JSONParse(Trim(StripPrefix(input)))

\* Stage 1 is violated: the outer value is not a non-empty array.
OuterNotNonEmptyArray ==
  /\ ~IsThrown(OuterValue)
  /\ ~IsArray(OuterValue) \/ Len(OuterValue.a) = 0

\* The outer value is a non-empty array whose element [0] is an array with a
\* non-empty string at [2].
HasNestedString ==
  /\ IsArray(OuterValue) /\ Len(OuterValue.a) > 0
  /\ IsArray(OuterValue.a[1]) /\ Len(OuterValue.a[1].a) >= 3
  /\ OuterValue.a[1].a[3].t = "string" /\ OuterValue.a[1].a[3].s # ""

\* Stage 2 is violated: stage 1 passes and the string at [0][2] is absent.
NestedStringAbsent ==
  /\ IsArray(OuterValue) /\ Len(OuterValue.a) > 0
  /\ ~HasNestedString

\* Stage 3 is violated: the nested document is not an array of length >= 2.
NestedNotDataArray ==
  /\ HasNestedString
  /\ LET data == JSONParse(OuterValue.a[1].a[3].s)
     IN ~IsThrown(data) /\ (~IsArray(data) \/ Len(data.a) < 2)

\* extractJsonFromResponse threw a ParseError whose message names `stage`.
ThrewStage(stage) ==
  /\ IsThrown(output)
  /\ output.class = "ParseError"
  /\ output.message = "Invalid response format: " \o stage

\* C16: extractJsonFromResponse fails with the message of the stage that is
\* violated: 'empty array' when the outer value is not a non-empty array,
\* 'missing nested JSON' when the string at [0][2] is absent (also when
\* element [0] is null or not an array), 'missing data array' when the
\* nested document is not an array of length >= 2.
C16_StageSpecificFailure ==
  fn = "extractJsonFromResponse" =>
    /\ OuterNotNonEmptyArray => ThrewStage("empty array")
    /\ NestedStringAbsent => ThrewStage("missing nested JSON")
    /\ NestedNotDataArray => ThrewStage("missing data array")

\* ---------------------------------------------------------------- C17
\* updateResponseObject was applied to a row set that is an array.
RowsDecoded == fn = "updateResponseObject" /\ IsArray(input)

\* The array-typed elements of the row set, in source order
ArrayRows == SelectSeq(input.a, IsArray)

\* Position k of a row is missing or null.
Absent(row, k) == k >= Len(row.a) \/ row.a[k + 1].t = "null"

\* The story has the default of every decoded position the row lacks.
HasDefaults(row, story) ==
  /\ Absent(row, 0) => story.title = ""
  /\ Absent(row, 6) => story.traffic = "0"
  /\ Absent(row, 12) => story.shareUrl = ""
  /\ Absent(row, 3) => story.startTime = 0
  /\ Absent(row, 4) => story.endTime = None
  /\ Absent(row, 1) => story.articles = <<>> /\ story.image = None

Prefixed == fn = "extractJsonFromResponse" /\ StartsWithAt(input, 1, XssiPrefix)

\* The text behind the first four characters
Payload == SubSeq(input, Len(XssiPrefix) + 1, Len(input))

\* C19: for a payload p that does not itself begin with the prefix, the
\* prefixed text decodes to what p decodes to; the prefix is stripped at the
\* very start only and once only, so a text with the prefix twice, or behind
\* white space, does not decode.
C19_PrefixInsensitive ==
  /\ (Prefixed /\ ~StartsWithAt(Payload, 1, XssiPrefix)) =>
       output = ExtractJsonFromResponse(Payload)
  /\ (Prefixed /\ StartsWithAt(Payload, 1, XssiPrefix)) => IsThrown(output)
  /\ (fn = "extractJsonFromResponse" /\ StartsWithAt(input, 1, " " \o XssiPrefix)) =>
       IsThrown(output)

\* A prefixed valid payload decoded to its one story.
C19_Witness ==
  /\ Prefixed
  /\ ~StartsWithAt(Payload, 1, XssiPrefix)
  /\ output.t = "return"
  /\ Len(output.v.allTrendingStories) = 1
  /\ output.v.allTrendingStories[1].title = "X"

\* ---------------------------------------------------------------- C20
\* C20 as stated: the traffic of a decoded row is a non-empty string: '0' when
\* index 6 is missing, null, 0 or '', otherwise the string form of the value
\* at index 6.
C20_Original ==
  (RowsDecoded /\ output.t = "return" /\ Len(output.v.allTrendingStories) = Len(ArrayRows)) =>
    \A i \in 1..Len(ArrayRows) :
      LET row == ArrayRows[i]
          traffic == output.v.allTrendingStories[i].traffic
      IN /\ traffic # ""
         /\ traffic = IF \/ Absent(row, 6)
                          \/ row.a[7] = JNum(0)
                          \/ row.a[7] = JStr("")
                        THEN "0"
                        ELSE StringOf(row.a[7])

\* C20: the traffic of a decoded row is a string: '0' when index 6 is missing
\* or falsy (null, false, 0, ''), otherwise the string form of the value at
\* index 6, which is empty only for an array that joins to ''.
C20_TrafficDefault ==
  (RowsDecoded /\ output.t = "return" /\ Len(output.v.allTrendingStories) = Len(ArrayRows)) =>
    \A i \in 1..Len(ArrayRows) :
      LET row == ArrayRows[i]
          traffic == output.v.allTrendingStories[i].traffic
      IN /\ traffic = IF \/ Absent(row, 6)
                          \/ row.a[7] \in {JNum(0), JStr(""), JBool(FALSE)}
                        THEN "0"
                        ELSE StringOf(row.a[7])
         /\ traffic = "" => (~Absent(row, 6) /\ IsArray(row.a[7]))

\* A full row with the number 0 at index 6 decoded to the traffic '0'.
C20_Witness ==
  /\ RowsDecoded
  /\ Len(input.a) = 1
  /\ IsArray(input.a[1]) /\ Len(input.a[1].a) = 13
  /\ input.a[1].a[7] = JNum(0)
  /\ output.t = "return"
  /\ output.v.allTrendingStories[1].traffic = "0"

\* ---------------------------------------------------------------- C21
\* updateResponseObject returned a story for every array-typed element.
StoriesDecoded ==
  /\ RowsDecoded
  /\ output.t = "return"
  /\ Len(output.v.allTrendingStories) = Len(ArrayRows)
  /\ Len(output.v.summary) = Len(ArrayRows)

\* The timestamp wrapper at position k of the row is absent: missing, null,
\* not an array, empty, or with a first element that is no number.
WrapperAbsent(row, k) ==
  \/ Absent(row, k)
  \/ ~IsArray(row.a[k + 1])
  \/ Len(row.a[k + 1].a) = 0
  \/ row.a[k + 1].a[1].t # "number"

\* The row of the end-to-end scenario
ScenarioRow ==
  JArr(<< JStr("X"), JNull, JStr("US"), JArr(<<JNum(100)>>), JNull, JNull,
          JStr("500"), JNull, JStr("900"), JArr(<<>>), JArr(<<JNum(11)>>),
          JArr(<<>>), JStr("X") >>)

\* C21: a row whose index-4 wrapper is absent gives a story and a summary
\* entry without endTime; a row whose index-3 wrapper is absent gives
\* startTime 0, any other row the first element of its index-3 wrapper; the
\* scenario row decodes to title 'X', traffic '500', no articles, shareUrl
\* 'X', startTime 100, without endTime and without image.
C21_TimestampsOfRow ==
  StoriesDecoded =>
    \A i \in 1..Len(ArrayRows) :
      LET row == ArrayRows[i]
          story == output.v.allTrendingStories[i]
          topic == output.v.summary[i]
      IN /\ WrapperAbsent(row, 4) => (story.endTime = None /\ topic.endTime = None)
         /\ story.startTime = IF WrapperAbsent(row, 3) THEN 0 ELSE row.a[4].a[1].n
         /\ topic.startTime = story.startTime
         /\ row = ScenarioRow =>
              /\ story = [title |-> "X", traffic |-> "500", articles |-> <<>>,
                          shareUrl |-> "X", startTime |-> 100, endTime |-> None,
                          image |-> None]
              /\ topic = [title |-> "X", traffic |-> "500", articles |-> <<>>,
                          startTime |-> 100, endTime |-> None]

\* The scenario row was decoded, alone in its row set.
C21_Witness ==
  /\ StoriesDecoded
  /\ input = JArr(<<ScenarioRow>>)
  /\ output.v.allTrendingStories[1].startTime = 100
  /\ output.v.allTrendingStories[1].endTime = None

\* ---------------------------------------------------------------- C22
\* The list at position [1][3] of the row; empty when there is none.
ArticleList(row) ==
  IF /\ ~Absent(row, 1) /\ IsArray(row.a[2])
     /\ Len(row.a[2].a) >= 4 /\ IsArray(row.a[2].a[4])
    THEN row.a[2].a[4].a
    ELSE <<>>

\* An element of the list that is an array of five elements or more
LongEnough(article) == article.t = "array" /\ Len(article.a) >= 5

\* Position k of a kept article as the decoded field shows it: '' for a
\* missing, null or otherwise falsy value, its string form for any other
ArticleField(article, k) ==
  IF Absent(article, k) \/ ~Truthy(article.a[k + 1]) THEN "" ELSE StringOf(article.a[k + 1])

HasImageBundle(row) ==
  ~Absent(row, 1) /\ IsArray(row.a[2]) /\ Len(row.a[2].a) >= 3

AutocompleteCalledEmpty == Ready /\ fn' = "autocomplete" /\ keyword' = ""

\* C24: autocomplete called with an empty keyword returns a success whose
\* data is the empty list; the call sends no attempt and neither builds
\* headers from the stored cookie nor changes it.
C24_EmptyKeywordNoRequest ==
  [][AutocompleteCalledEmpty =>
       /\ output' = Some(Returned(DataResult(<<>>)))
       /\ input' = None
       /\ UNCHANGED transportVars]_vars

\* autocomplete('') has returned while a cookie of an earlier call is stored.
C24_Witness ==
  /\ fn = "autocomplete" /\ keyword = ""
  /\ output = Some(Returned(DataResult(<<>>)))
  /\ cookieVal = Some("NID=1")
  /\ attemptsSent["A"] = 0 /\ wire["A"] = None

\* ---------------------------------------------------------------- C25
\* autocomplete has returned for a text its request resolved with.
AutocompleteDecoded ==
  /\ fn = "autocomplete"
  /\ output # None
  /\ input # None
  /\ ~IsThrown(input[1])

\* The document read from the text after its first n characters
DocumentAfter(n) == JSONParse(Slice(input[1].v, n))

\* The document has a list of topics, each with properties to read.
HasTopics(doc) ==
  /\ doc.t = "object" /\ "default" \in DOMAIN doc.o
  /\ doc.o["default"].t = "object" /\ "topics" \in DOMAIN doc.o["default"].o
  /\ doc.o["default"].o["topics"].t = "array"
  /\ \A i \in 1..Len(doc.o["default"].o["topics"].a) :
       doc.o["default"].o["topics"].a[i].t \notin {"null", "undefined"}

\* The titles of the topics of the document, in their order
TitlesOf(doc) ==
  LET topics == doc.o["default"].o["topics"].a
  IN [i \in 1..Len(topics) |->
        IF topics[i].t = "object" /\ "title" \in DOMAIN topics[i].o
          THEN topics[i].o["title"] ELSE JUndefined]

\* autocomplete returned the titles of the document after n characters, and
\* an error when there is no such document.
ReturnsTitlesAfter(n) ==
  AutocompleteDecoded =>
    /\ output[1].t = "return"
    /\ IF HasTopics(DocumentAfter(n))
         THEN output[1].v = DataResult(TitlesOf(DocumentAfter(n)))
         ELSE output[1].v.data = None

\* C25 as stated: autocomplete removes exactly the first 4 characters of the
\* text and parses everything from the 5th character on; the list returned
\* is the titles of default.topics in their order.
C25_Original == ReturnsTitlesAfter(4)

\* C25: autocomplete removes exactly the first 5 characters of the text and
\* parses everything from the 6th character on; the list returned is the
\* titles of default.topics in their order.
C25_SliceFive == ReturnsTitlesAfter(5)

\* autocomplete returned two titles in order from a text behind a prefix of
\* five characters and a line feed.
C25_Witness ==
  /\ AutocompleteDecoded
  /\ StartsWithAt(input[1].v, 1, XssiPrefix \o ",\n")
  /\ output[1].v = DataResult(<<JStr("a"), JStr("b")>>)

\* ---------------------------------------------------------------- C26
\* The text autocomplete received cannot be parsed: it is not JSON after the
\* prefix, or the document has no default.topics list.
AutocompleteUndecodable ==
  /\ AutocompleteDecoded
  /\ LET doc == DocumentAfter(5)
     IN \/ IsThrown(doc)
        \/ doc.t # "object"
        \/ "default" \notin DOMAIN doc.o
        \/ doc.o["default"].t # "object"
        \/ "topics" \notin DOMAIN doc.o["default"].o
        \/ doc.o["default"].o["topics"].t # "array"

\* C26 as stated: when the text autocomplete received cannot be parsed, the
\* result is an error of the ParseError kind.
C26_Original == AutocompleteUndecodable => ResultErrorIs("ParseError")

\* C26: when the text autocomplete received cannot be parsed, the result is
\* an error of the NetworkError kind, the kind a transport fault gives, and
\* never of the ParseError kind.
C26_UndecodableIsNetworkError ==
  AutocompleteUndecodable =>
    /\ ResultErrorIs("NetworkError")
    /\ ~ResultErrorIs("ParseError")

\* autocomplete returned a NetworkError for a document without topics.
C26_Witness ==
  /\ AutocompleteUndecodable
  /\ input[1].v = XssiPrefix \o ",\n{\"default\":{}}"
  /\ ResultErrorIs("NetworkError")

\* ---------------------------------------------------------------- C27
\* C27: relatedTopics, relatedQueries and relatedData called with an empty
\* keyword return a result without data whose error is a ParseError, and
\* send no request.
C27_EmptyKeywordIsParseError ==
  (fn \in {"relatedTopics", "relatedQueries", "relatedData"} /\ keyword = "") =>
    /\ output # None
    /\ ResultErrorIs("ParseError")
    /\ input = None
    /\ attemptsSent["A"] = 0

\* ---------------------------------------------------------------- C28
\* The body the explore call of explore, interestByRegion or relatedTopics
\* received holds '<html' or '<!DOCTYPE'.
ExploreGotHtml ==
  /\ fn \in {"explore"} \cup ExploreMethods
  /\ input # None
  /\ ~IsThrown(input[1])
  /\ Includes(input[1].v, "<html") \/ Includes(input[1].v, "<!DOCTYPE")

\* The error explore gives for an HTML body
HtmlError ==
  Some([class |-> "ParseError", message |-> "Explore request returned HTML instead of JSON"])

\* C28: when the body of an explore call holds '<html' or '<!DOCTYPE',
\* explore returns a ParseError and no widgets, and interestByRegion and
\* relatedTopics return that same error without a second request.
C28_HtmlIsParseError ==
  ExploreGotHtml =>
    /\ output # None
    /\ output[1].t = "return"
    /\ output[1].v.error = HtmlError
    /\ fn = "explore" => output[1].v.widgets = None
    /\ fn \in ExploreMethods => (output[1].v.data = None /\ Len(input) = 1)

\* relatedTopics returned the error of explore for a body that is a JSON
\* document holding '<html'.
C28_Witness ==
  /\ ExploreGotHtml
  /\ fn = "relatedTopics"
  /\ input[1].v = XssiPrefix \o "\n[[{\"id\":\"GEO_MAP\",\"title\":\"<html\"}]]"
  /\ output[1].v.error = HtmlError

\* ---------------------------------------------------------------- C29
\* The Content-Type of the discriminator of the options
TypeOfDiscriminator(options) ==
  IF options.contentType = Some("form")
    THEN "application/x-www-form-urlencoded" ELSE "application/json"

\* The stored cookie, '' when there is none
StoredCookie == IF cookieVal = None THEN "" ELSE cookieVal[1]

\* An attempt of the call with options is put on the wire in this step.
AttemptSent ==
  /\ fn' = "request"
  /\ wire'["A"] # None
  /\ attemptsSent'["A"] # attemptsSent["A"]

Segment(v) ==
  LET n == CHOOSE n \in 0..Len(v) :
             /\ \A i \in 1..n : SubSeq(v, i, i) # ";"
             /\ n = Len(v) \/ SubSeq(v, n + 1, n + 1) = ";"
  IN SubSeq(v, 1, n)

\* C30: whatever the calls and their interleaving, the stored cookie is
\* empty or the name=value segment of the first Set-Cookie value of a
\* response the process has handled: every step that changes it clears it or
\* stores that segment of the response handled in the step, and it never
\* holds a ';'.
C30_CookieFromResponse ==
  [][/\ cookieVal' # None => ~Includes(cookieVal'[1], ";")
     /\ cookieVal' # cookieVal =>
          \/ cookieVal' = None
          \/ \E c \in Calls :
               /\ HandlerRan(c)
               /\ HasSetCookie(res'[c])
               /\ cookieVal' = Some(Segment(res'[c].setCookie[1]))]_vars

\* While both calls are in flight the cookie is the segment of the first of
\* two Set-Cookie values of the response one of them handled.
C30_Witness ==
  /\ cookieVal = Some("SID=2")
  /\ pc["A"] # "idle" /\ pc["B"] # "idle"
  /\ \E c \in Calls :
       res[c] # NoResponse /\ res[c].setCookie = <<"SID=2", "X=9; Secure">>

\* ---------------------------------------------------------------- C31
\* C31: the stored cookie is changed only by the handling of a response
\* that carries Set-Cookie or has status 302: the handling of a response
\* with neither, a transport fault, the building of the request headers, a
\* backoff wait and its end, and both decode operations leave it as it was.
C31_CookieFrame ==
  [][cookieVal' # cookieVal =>
       /\ HandlerRan("A")
       /\ HasSetCookie(res'["A"]) \/ res'["A"].statusCode = 302]_vars

\* A decoded result is at hand and a later call, sent with the stored cookie,
\* is in a backoff wait after a response without Set-Cookie.
C31_Witness ==
  /\ fn = "extractJsonFromResponse"
  /\ output.t = "return"
  /\ pc["A"] = "sleeping"
  /\ cookieVal = Some("NID=1")
  /\ res["A"].setCookie = <<>>

\* ---------------------------------------------------------------- C32
\* C32: every request() of a public method runs without backoff: it sends
\* one attempt that has no retry left, never waits, and the handling of any
\* response, a 429, 401 or 302 included, resolves the call with the body of
\* that response.
C32_OneAttemptPerRequest ==
  [][/\ pc'["A"] # "sleeping"
     /\ attemptsSent'["A"] <= 1
     /\ pc'["A"] = "awaiting" =>
          (~enableBackoff'["A"] /\ ~CanRetry(attempt'["A"]))
     /\ HandlerRan("A") =>
          (pc'["A"] = "resolved" /\ result'["A"] = Some(res'["A"].chunk))]_vars

\* The second request of relatedTopics resolved with the body of a 302 after
\* one attempt.
C32_Witness ==
  /\ fn = "relatedTopics"
  /\ Len(input) = 1
  /\ pc["A"] = "resolved"
  /\ res["A"].statusCode = 302
  /\ attemptsSent["A"] = 1
  /\ result["A"] = Some(res["A"].chunk)

\* ---------------------------------------------------------------- C33
\* The wrapper at position k of the row is an array whose first element is a
\* number.
WrapperNumeric(row, k) ==
  /\ ~Absent(row, k)
  /\ IsArray(row.a[k + 1])
  /\ Len(row.a[k + 1].a) > 0
  /\ row.a[k + 1].a[1].t = "number"

\* C33: for a row whose index-4 wrapper is an array with a numeric first
\* element t, 0 included, the story and the summary entry both have an
\* endTime of value t; startTime is likewise the numeric first element of
\* the index-3 wrapper.
C33_NumericTimestampsKept ==
  StoriesDecoded =>
    \A i \in 1..Len(ArrayRows) :
      LET row == ArrayRows[i]
          story == output.v.allTrendingStories[i]
          topic == output.v.summary[i]
      IN /\ WrapperNumeric(row, 4) =>
              /\ story.endTime = Some(row.a[5].a[1].n)
              /\ topic.endTime = Some(row.a[5].a[1].n)
         /\ WrapperNumeric(row, 3) =>
              /\ story.startTime = row.a[4].a[1].n
              /\ topic.startTime = row.a[4].a[1].n

\* ---------------------------------------------------------------- C34
\* The widgets of the list that are objects with id 'GEO_MAP', by position
GeoMapPositions(widgets) ==
  {i \in Positions(widgets) :
     widgets.a[i].t = "object" /\ "id" \in DOMAIN widgets.a[i].o
       /\ widgets.a[i].o["id"] = JStr("GEO_MAP")}

\* C34: interestByRegion and relatedTopics send their own request only after
\* explore returned a widgets result; an error of explore is returned as it
\* is and no second request is sent; interestByRegion returns a ParseError
\* and sends no second request when no widget has id 'GEO_MAP', and
\* otherwise goes on to a request that carries the token of the GEO_MAP
\* widget.
C34_DependentRequest ==
  (fn \in ExploreMethods /\ Len(input) >= 1) =>
    LET explored == Explore(input[1])
        widgets == explored.widgets[1]
        geo == GeoMapPositions(widgets)
        first == CHOOSE i \in geo : \A j \in geo : i <= j
    IN /\ token # None => explored.error = None
       /\ explored.error # None =>
            /\ output = Some(Returned(SameError(explored)))
            /\ Len(input) = 1
       /\ (fn = "interestByRegion" /\ explored.error = None) =>
            IF geo = {}
              THEN /\ output # None
                   /\ output[1].t = "return"
                   /\ output[1].v.error # None
                   /\ output[1].v.error[1].class = "ParseError"
                   /\ token = None
                   /\ Len(input) = 1
              ELSE /\ Len(input) = 1 => output = None
                   /\ token # None =>
                        token = Some(IF "token" \in DOMAIN widgets.a[first].o
                                       THEN widgets.a[first].o["token"]
                                       ELSE JUndefined)

\* ---------------------------------------------------------------- C35
\* relatedQueries or relatedData has returned.
RelatedReturned ==
  /\ fn \in {"relatedQueries", "relatedData"}
  /\ Len(input) = 1
  /\ output # None

\* The entries e rank the first min(10, |s|) of the suggestions s, in order,
\* with values 100, 90, ... that decrease and stay within 10..100.
RanksSuggestions(e, s) ==
  /\ Len(e) = (IF Len(s) < 10 THEN Len(s) ELSE 10)
  /\ \A i \in 1..Len(e) :
        /\ e[i].value = 100 - 10 * (i - 1)
        /\ e[i].value \in 10..100
        /\ i > 1 => e[i].value < e[i - 1].value

TaggedMethods ==
  {"autocomplete", "dailyTrends", "realTimeTrends", "relatedTopics", "relatedQueries",
   "relatedData"}

\* C36: whatever the transport and the decode step gave, autocomplete,
\* dailyTrends, realTimeTrends, relatedTopics, relatedQueries and relatedData
\* never reject, and the result they return has exactly one of data and error.
C36_ExactlyOneOfDataAndError ==
  (fn \in TaggedMethods /\ output # None) =>
    /\ output[1].t = "return"
    /\ (output[1].v.data = None) # (output[1].v.error = None)

\* relatedTopics met a null widget in what explore returned.
C36_Witness ==
  /\ fn = "relatedTopics"
  /\ output # None
  /\ Len(input) = 1
  /\ Explore(input[1]).error = None
  /\ IsThrown(RelatedTopicsWidget(keyword, Explore(input[1]).widgets[1]))
  /\ output[1].v.data = None
  /\ output[1].v.error # None

\* ---------------------------------------------------------------- C37
\* The step sends the first attempt of a call that follows another call.
NextCallSent ==
  /\ pc["A"] = "idle"
  /\ pc'["A"] = "awaiting"
  /\ lastResponse # NoResponse

\* C37: with calls run one after another, the first attempt of a call is
\* sent with the name=value of the Set-Cookie of the response the call
\* before it processed last when that response was not a 302, and with no
\* cookie header when that response was a 302.
C37_CookieOfNextCall ==
  [][NextCallSent =>
       /\ (HasSetCookie(lastResponse) /\ lastResponse.statusCode # 302) =>
            /\ "cookie" \in DOMAIN wire'["A"][1]
            /\ wire'["A"][1]["cookie"] = Segment(lastResponse.setCookie[1])
       /\ lastResponse.statusCode = 302 =>
            "cookie" \notin DOMAIN wire'["A"][1]]_vars

\* The call before ended on a 302 that carried Set-Cookie, and the first
\* attempt of this call is on the wire without a cookie.
C37_Witness ==
  /\ pc["A"] = "awaiting"
  /\ attemptsSent["A"] = 1
  /\ res["A"] = NoResponse
  /\ lastResponse # NoResponse
  /\ lastResponse.statusCode = 302
  /\ HasSetCookie(lastResponse)
  /\ "cookie" \notin DOMAIN wire["A"][1]

=============================================================================
